---- MODULE Spec2Model ----
(***************************************************************************)
(* A model of the core of gristle's Grist API client                       *)
(* (src/gristapi/gristapi.go): the Transport function httpRequest, the     *)
(* five record operations and the SCIM v2 bulk executor.                   *)
(*                                                                         *)
(* One call of the API runs at a time (the core is synchronous).  A call   *)
(* is followed statement by statement where it matters: pc is the position *)
(* of the running call, and a Transport round trip is two steps, the       *)
(* request being issued (it is appended to calls and becomes inflight) and *)
(* the reply being returned to the caller.  Spec is the specification of   *)
(* the core.                                                               *)
(*                                                                         *)
(* The terminal UI (package tui, src/unnamed/part_006) is modelled beside  *)
(* it: the Model the program holds, the commands that run and the way the  *)
(* program ended.  TuiSpec is its specification.  The core leaves the      *)
(* state of the terminal UI alone, and the terminal UI that of the core.   *)
(***************************************************************************)
EXTENDS Integers, Sequences, FiniteSets, Bags, TLC

(***************************************************************************)
(* Bounds of the model.                                                    *)
(***************************************************************************)
\* the longest Operations list of a request passed to SCIMBulk
MaxOps == 3
\* the largest failOnErrors threshold of a request
MaxFailOnErrors == 2
\* the longest Operations list of a JSON text passed to SCIMBulkFromJSON
MaxJsonOps == 2
\* the longest list of records or ids passed to a record operation
MaxRecords == 2
\* the most commands of the terminal UI that run at the same time
MaxCmds == 1

(***************************************************************************)
(* Texts and JSON.  A Go string that holds a body is modelled by what      *)
(* encoding/json makes of it: the empty string, a text that is no JSON     *)
(* (it keeps its characters), or the encoding of a JSON value.             *)
(***************************************************************************)
EmptyText == [kind |-> "empty"]
RawText(s) == [kind |-> "raw", s |-> s]
JsonText(v) == [kind |-> "json", v |-> v]

\* JSON values
JNull == [t |-> "null"]
JString(s) == [t |-> "string", s |-> s]
JNumber(n) == [t |-> "number", n |-> n]
JArray(a) == [t |-> "array", a |-> a]
\* an object: keys is the set of its member names, m maps each to its value
JObject(keys, m) == [t |-> "object", keys |-> keys, m |-> m]

\* Go values of type interface{} handed to json.Marshal by a caller:
\* nil, a value encoding/json can encode (it carries its encoding), or one
\* it cannot (a channel, a func, a NaN, ...)
GoNil == [go |-> "nil"]
GoValue(v) == [go |-> "value", v |-> v]
GoUnsupported == [go |-> "unsupported"]

\* json.Marshal(v) for v of type interface{}: (bytes, err)
json_Marshal(v) ==
    CASE v.go = "nil" -> [err |-> FALSE, text |-> JsonText(JNull)]
      [] v.go = "value" -> [err |-> FALSE, text |-> JsonText(v.v)]
      [] OTHER -> [err |-> TRUE, text |-> EmptyText]

\* json.Unmarshal(text, &x) for x of type interface{}: (x, err)
json_Unmarshal(text) ==
    IF text.kind = "json"
    THEN [err |-> FALSE, v |-> text.v]
    ELSE [err |-> TRUE, v |-> JNull]

\* the names of object members in the order encoding/json writes map keys
\* (sorted)
KeyOrder == <<"age", "fields", "id", "name", "records", "require">>

RECURSIVE strings_Join(_, _)
\* strings.Join(parts, sep)
strings_Join(parts, sep) ==
    IF Len(parts) = 0 THEN ""
    ELSE IF Len(parts) = 1 THEN parts[1]
    ELSE parts[1] \o sep \o strings_Join(Tail(parts), sep)

(***************************************************************************)
(* Decimal conversions.  A status string is a sequence of characters.      *)
(***************************************************************************)
Digits == <<"0", "1", "2", "3", "4", "5", "6", "7", "8", "9">>

DigitValue(c) == CHOOSE d \in 0..9 : Digits[d + 1] = c

IsDigit(c) == \E d \in 0..9 : Digits[d + 1] = c

RECURSIVE FormatNat(_)
FormatNat(n) ==
    IF n < 10
    THEN <<Digits[n + 1]>>
    ELSE FormatNat(n \div 10) \o <<Digits[(n % 10) + 1]>>

\* fmt.Sprintf("%d", n)
Sprintf_d(n) == IF n < 0 THEN <<"-">> \o FormatNat(0 - n) ELSE FormatNat(n)

RECURSIVE ScanDigits(_, _, _)
\* the digits of s from position k on, accumulated into acc;
\* the result is <<value, number of digits read>>
ScanDigits(s, k, acc) ==
    IF k <= Len(s) /\ IsDigit(s[k])
    THEN LET r == ScanDigits(s, k + 1, acc * 10 + DigitValue(s[k]))
         IN  <<r[1], r[2] + 1>>
    ELSE <<acc, 0>>

\* fmt.Sscanf(s, "%d", &x) with x holding old before the call: an optional
\* sign and then at least one digit; x is left alone when nothing is read
Sscanf_d(s, old) ==
    LET signed == Len(s) >= 1 /\ s[1] \in {"+", "-"}
        start == IF signed THEN 2 ELSE 1
        r == ScanDigits(s, start, 0)
    IN  IF r[2] = 0 THEN old
        ELSE IF signed /\ s[1] = "-" THEN 0 - r[1] ELSE r[1]

\* strconv.Itoa(n)
strconv_Itoa(n) == strings_Join(Sprintf_d(n), "")

RECURSIVE JsonString(_)
\* the characters json.Marshal writes for a JSON value
JsonString(v) ==
    CASE v.t = "null" -> "null"
      [] v.t = "string" -> "\"" \o v.s \o "\""
      [] v.t = "number" -> strconv_Itoa(v.n)
      [] v.t = "array" ->
            "[" \o strings_Join([k \in 1..Len(v.a) |-> JsonString(v.a[k])], ",") \o "]"
      [] v.t = "object" ->
            LET ks == SelectSeq(KeyOrder, LAMBDA k : k \in v.keys)
            IN  "{" \o strings_Join([k \in 1..Len(ks) |->
                        "\"" \o ks[k] \o "\":" \o JsonString(v.m[ks[k]])], ",") \o "}"

(***************************************************************************)
(* Program constants.                                                      *)
(***************************************************************************)
SCIMBulkRequestSchema == "urn:ietf:params:scim:api:messages:2.0:BulkRequest"
SCIMBulkResponseSchema == "urn:ietf:params:scim:api:messages:2.0:BulkResponse"
SCIMErrorSchema == "urn:ietf:params:scim:api:messages:2.0:Error"
StatusOK == 200
StatusBadRequest == 400
\* the status httpRequest returns when the request could not be sent
TransportFailure == -10
\* the status a record operation returns when json.Marshal fails
MarshalFailure == -1
\* os.Getenv("GRIST_URL")
GRIST_URL == "https://grist.example"

(***************************************************************************)
(* Transport (httpRequest and its five wrappers).                          *)
(***************************************************************************)
\* the arguments of one httpRequest call
HttpCall(action, myRequest, data) ==
    [action |-> action, request |-> myRequest, data |-> data]

httpGet(myRequest, data) == HttpCall("GET", myRequest, data)
httpPost(myRequest, data) == HttpCall("POST", myRequest, data)
httpPatch(myRequest, data) == HttpCall("PATCH", myRequest, data)
httpDelete(myRequest, data) == HttpCall("DELETE", myRequest, data)
httpPut(myRequest, data) == HttpCall("PUT", myRequest, data)

NoCall == [action |-> "none"]

\* a JSON object with an id member, as a SCIM server answers a create
UserJSON == JObject({"id", "userName"},
                    [k \in {"id", "userName"} |->
                        IF k = "id" THEN JString("user1") ELSE JString("testuser")])
\* a JSON object without an id member
ErrorJSON == JObject({"error"}, [k \in {"error"} |-> JString("bad request")])

\* what the SCIM endpoints of the server may answer: any status with any body
ScimServerReplies ==
    { [body |-> JsonText(UserJSON), status |-> 201],
      [body |-> JsonText(ErrorJSON), status |-> 200],
      [body |-> EmptyText, status |-> 204],
      [body |-> JsonText(UserJSON), status |-> 400] }

\* a records envelope, as the server answers a fetch
AliceJSON == JObject({"id", "fields"},
                     [k \in {"id", "fields"} |->
                        IF k = "id" THEN JNumber(1)
                        ELSE JObject({"name"}, [x \in {"name"} |-> JString("Alice")])])
BobJSON == JObject({"id", "fields"},
                   [k \in {"id", "fields"} |->
                      IF k = "id" THEN JNumber(2)
                      ELSE JObject({"name"}, [x \in {"name"} |-> JString("Bob")])])
RecordsJSON == JObject({"records"},
                       [k \in {"records"} |-> JArray(<<AliceJSON, BobJSON>>)])

\* what the records endpoints of the server may answer
RecordsServerReplies ==
    { [body |-> JsonText(RecordsJSON), status |-> 200],
      [body |-> RawText("not json"), status |-> 200],
      [body |-> JsonText(RecordsJSON), status |-> 201],
      [body |-> JsonText(RecordsJSON), status |-> 404],
      [body |-> EmptyText, status |-> 500] }

\* client.Do failed: the message and -10
NetworkFailure(call) ==
    [body |-> RawText("Error sending request " \o GRIST_URL \o "/api/" \o call.request),
     status |-> TransportFailure]

\* client.Do succeeded and io.ReadAll failed: the error is logged and what
\* was read so far is returned with the status the server sent
BodyReadFailure ==
    [body |-> RawText("{\"records\":[{\"id\":1"), status |-> StatusOK]

(***************************************************************************)
(* Record operations: the query builder, the request bodies and the        *)
(* decoding of the responses.                                              *)
(***************************************************************************)
\* the orders in which a range over a map with these keys may visit them
IterationOrders(keys) ==
    { p \in [1..Cardinality(keys) -> keys] :
        \A a, b \in 1..Cardinality(keys) : a # b => p[a] # p[b] }

\* (mutant) the check that parts is empty is missing
buildRecordsQueryParams_noPartsCheck(params) ==
    IF DOMAIN params = {} THEN {""}
    ELSE LET kept == {k \in DOMAIN params : params[k] # ""}
         IN  { "?" \o strings_Join([j \in 1..Len(p) |->
                                       p[j] \o "=" \o params[p[j]]], "&") :
                 p \in IterationOrders(kept) }

\* (mutant) entries with an empty value are not skipped
buildRecordsQueryParams_keepEmpty(params) ==
    IF DOMAIN params = {} THEN {""}
    ELSE { "?" \o strings_Join([j \in 1..Len(p) |->
                                   p[j] \o "=" \o params[p[j]]], "&") :
             p \in IterationOrders(DOMAIN params) }

\* buildRecordsQueryParams(params): the strings it may return, one for each
\* order in which the range over params may visit the entries
buildRecordsQueryParams(params) ==
    IF DOMAIN params = {} THEN {""}
    ELSE LET kept == {k \in DOMAIN params : params[k] # ""}
         IN  IF kept = {} THEN {""}
             ELSE { "?" \o strings_Join([j \in 1..Len(p) |->
                                            p[j] \o "=" \o params[p[j]]], "&") :
                      p \in IterationOrders(kept) }

\* a params map built by assigning the entries of all whose condition holds
ParamsOf(all, cond) ==
    [k \in {x \in DOMAIN all : cond[x]} |-> all[k]]

\* a nil options pointer
NilOptions == [nil |-> TRUE]

\* GetRecords: params as built from options.  A filter that cannot be
\* marshalled is left out (err is ignored)
GetRecords_params(options) ==
    IF options.nil THEN <<>>
    ELSE LET filterJSON == json_Marshal(options.Filter)
             all == [k \in {"filter", "sort", "limit", "hidden"} |->
                        CASE k = "filter" ->
                                IF filterJSON.err THEN ""
                                ELSE JsonString(filterJSON.text.v)
                          [] k = "sort" -> options.Sort
                          [] k = "limit" -> strconv_Itoa(options.Limit)
                          [] k = "hidden" -> "true"]
             cond == [k \in {"filter", "sort", "limit", "hidden"} |->
                        CASE k = "filter" ->
                                options.Filter.go # "nil" /\ ~filterJSON.err
                          [] k = "sort" -> options.Sort # ""
                          [] k = "limit" -> options.Limit > 0
                          [] k = "hidden" -> options.Hidden]
         IN  ParamsOf(all, cond)

\* AddRecords and UpdateRecords: params as built from options
NoParse_params(options) ==
    IF ~options.nil /\ options.NoParse
    THEN [k \in {"noparse"} |-> "true"]
    ELSE <<>>

\* (mutant) noupdate is set under the condition of noadd
UpsertRecords_params_noUpdateFromNoAdd(options) ==
    IF options.nil THEN <<>>
    ELSE LET names == {"onmany", "noadd", "noupdate", "allow_empty_require", "noparse"}
             all == [k \in names |-> IF k = "onmany" THEN options.OnMany ELSE "true"]
             cond == [k \in names |->
                        CASE k = "onmany" -> options.OnMany # ""
                          [] k = "noadd" -> options.NoAdd
                          [] k = "noupdate" -> options.NoAdd
                          [] k = "allow_empty_require" -> options.AllowEmptyRequire
                          [] k = "noparse" -> options.NoParse]
         IN  ParamsOf(all, cond)

\* UpsertRecords: params as built from options
UpsertRecords_params(options) ==
    IF options.nil THEN <<>>
    ELSE LET names == {"onmany", "noadd", "noupdate", "allow_empty_require", "noparse"}
             all == [k \in names |-> IF k = "onmany" THEN options.OnMany ELSE "true"]
             cond == [k \in names |->
                        CASE k = "onmany" -> options.OnMany # ""
                          [] k = "noadd" -> options.NoAdd
                          [] k = "noupdate" -> options.NoUpdate
                          [] k = "allow_empty_require" -> options.AllowEmptyRequire
                          [] k = "noparse" -> options.NoParse]
         IN  ParamsOf(all, cond)

\* fmt.Sprintf("docs/%s/tables/%s/records%s", docId, tableId, query)
RecordsURL(docId, tableId, query) ==
    "docs/" \o docId \o "/tables/" \o tableId \o "/records" \o query

\* the JSON of a map[string]interface{} field: null for a nil map
MapJSON(f) == IF f.go = "value" THEN f.v ELSE JNull

\* json.Marshal of {records: [...]} whose elements are written by elem:
\* it fails when a map of an element cannot be encoded; a nil list is null
MarshalRecords(records, bad, elem) ==
    [err |-> \E k \in 1..Len(records) : bad[k],
     text |-> IF \E k \in 1..Len(records) : bad[k] THEN EmptyText
              ELSE JsonText(JObject({"records"}, [x \in {"records"} |->
                       IF Len(records) = 0 THEN JNull
                       ELSE JArray([k \in 1..Len(records) |-> elem[k]])]))]

\* AddRecords: json.Marshal(body), body.Records holding {fields} per input
AddRecords_body(records) ==
    MarshalRecords(records,
        [k \in 1..Len(records) |-> records[k].go = "unsupported"],
        [k \in 1..Len(records) |->
            JObject({"fields"}, [x \in {"fields"} |-> MapJSON(records[k])])])

\* UpdateRecords: json.Marshal(body), body.Records being the Record list
\* (id is omitempty)
UpdateRecords_body(records) ==
    MarshalRecords(records,
        [k \in 1..Len(records) |-> records[k].Fields.go = "unsupported"],
        [k \in 1..Len(records) |->
            LET keys == {"fields"} \cup (IF records[k].Id # 0 THEN {"id"} ELSE {})
            IN  JObject(keys, [x \in keys |->
                    IF x = "id" THEN JNumber(records[k].Id)
                    ELSE MapJSON(records[k].Fields)])])

\* UpsertRecords: json.Marshal(body), body.Records being the
\* RecordWithRequire list (fields is omitempty)
UpsertRecords_body(records) ==
    MarshalRecords(records,
        [k \in 1..Len(records) |->
            \/ records[k].Require.go = "unsupported"
            \/ records[k].Fields.go = "unsupported"],
        [k \in 1..Len(records) |->
            LET keys == {"require"}
                        \cup (IF records[k].Fields.go # "nil" THEN {"fields"} ELSE {})
            IN  JObject(keys, [x \in keys |->
                    IF x = "require" THEN MapJSON(records[k].Require)
                    ELSE MapJSON(records[k].Fields)])])

\* (mutant) an id that occurred before in the list is left out
DeleteRecords_body_deduplicated(recordIds) ==
    LET first == { k \in 1..Len(recordIds) :
                     \A j \in 1..(k - 1) : recordIds[j] # recordIds[k] }
        kept == SelectSeq([k \in 1..Len(recordIds) |-> <<k, recordIds[k]>>],
                          LAMBDA e : e[1] \in first)
    IN  [err |-> FALSE,
         text |-> JsonText(JArray([k \in 1..Len(kept) |-> JNumber(kept[k][2])]))]

\* DeleteRecords: json.Marshal(recordIds) of an []int, which cannot fail
DeleteRecords_body(recordIds) ==
    [err |-> FALSE,
     text |-> JsonText(JArray([k \in 1..Len(recordIds) |-> JNumber(recordIds[k])]))]

\* the elements of the records member of a decoded body, when it has them
RecordsMember(text) ==
    IF /\ text.kind = "json"
       /\ text.v.t = "object"
       /\ "records" \in text.v.keys
       /\ text.v.m["records"].t = "array"
    THEN text.v.m["records"].a
    ELSE <<>>

NumberMember(v, key) ==
    IF v.t = "object" /\ key \in v.keys /\ v.m[key].t = "number"
    THEN v.m[key].n ELSE 0

\* json.Unmarshal([]byte(response), &records) for a RecordsList
Unmarshal_RecordsList(text) ==
    [k \in 1..Len(RecordsMember(text)) |->
        LET e == RecordsMember(text)[k]
        IN  [Id |-> NumberMember(e, "id"),
             Fields |-> IF e.t = "object" /\ "fields" \in e.keys
                        THEN e.m["fields"] ELSE JNull]]

\* json.Unmarshal([]byte(response), &result) for a RecordsWithoutFields
Unmarshal_RecordsWithoutFields(text) ==
    [k \in 1..Len(RecordsMember(text)) |->
        [Id |-> NumberMember(RecordsMember(text)[k], "id")]]

\* what a record operation returns: the decoded records (GetRecords,
\* AddRecords) or the body (the others), with the status
RecordResult(records, body, status) ==
    [Records |-> records, Body |-> body, status |-> status]

NoResult == RecordResult(<<>>, EmptyText, 0)

\* (mutant) the body is decoded for every 2xx status
GetRecords_finish_any2xx(response, status) ==
    RecordResult(IF status >= 200 /\ status < 300
                 THEN Unmarshal_RecordsList(response) ELSE <<>>,
                 EmptyText, status)

\* GetRecords after httpGet returned (response, status)
GetRecords_finish(response, status) ==
    RecordResult(IF status = StatusOK THEN Unmarshal_RecordsList(response) ELSE <<>>,
                 EmptyText, status)

\* (mutant) the ids are decoded for every 2xx status
AddRecords_finish_any2xx(response, status) ==
    RecordResult(IF status >= 200 /\ status < 300
                 THEN Unmarshal_RecordsWithoutFields(response) ELSE <<>>,
                 EmptyText, status)

\* AddRecords after httpPost returned (response, status)
AddRecords_finish(response, status) ==
    RecordResult(IF status = StatusOK
                 THEN Unmarshal_RecordsWithoutFields(response) ELSE <<>>,
                 EmptyText, status)

\* (mutant) the body is handed on only when the status is 200
PassThrough_finish_okOnly(response, status) ==
    RecordResult(<<>>, IF status = StatusOK THEN response ELSE EmptyText, status)

\* UpdateRecords, UpsertRecords and DeleteRecords after Transport returned
PassThrough_finish(response, status) == RecordResult(<<>>, response, status)

\* (mutant) a marshal failure is reported with the status of a transport
\* failure
MarshalFailed_asTransportFailure == RecordResult(<<>>, EmptyText, TransportFailure)

\* the return of a record operation whose json.Marshal failed
MarshalFailed == RecordResult(<<>>, EmptyText, MarshalFailure)

(***************************************************************************)
(* SCIM v2 bulk: types.                                                    *)
(***************************************************************************)
SCIMBulkOperation(method, path, bulkId, data) ==
    [Method |-> method, Path |-> path, BulkId |-> bulkId, Data |-> data]

SCIMBulkRequest(schemas, failOnErrors, operations) ==
    [Schemas |-> schemas, FailOnErrors |-> failOnErrors, Operations |-> operations]

\* the values of the Response field of an operation response
NilResponse == [kind |-> "nil"]
SCIMError(detail, status, scimType) ==
    [kind |-> "SCIMError", schemas |-> <<SCIMErrorSchema>>, detail |-> detail,
     status |-> status, scimType |-> scimType]
DecodedResponse(v) == [kind |-> "decoded", v |-> v]
StringResponse(text) == [kind |-> "string", text |-> text]

SCIMBulkOperationResponse(method, bulkId, location, status, resp) ==
    [Method |-> method, BulkId |-> bulkId, Location |-> location,
     Status |-> status, Response |-> resp]

\* the zero value of SCIMBulkRequest
ZeroRequest == SCIMBulkRequest(<<>>, 0, <<>>)

(***************************************************************************)
(* SCIM v2 bulk: the pure parts of SCIMBulk and executeSCIMOperation.      *)
(***************************************************************************)
\* (mutant) an empty schemas list is let through
schemaValid_emptyAccepted(schemas) ==
    \/ Len(schemas) = 0
    \/ \E k \in 1..Len(schemas) : schemas[k] = SCIMBulkRequestSchema

\* SCIMBulk's schema validation loop
schemaValid(schemas) ==
    \E k \in 1..Len(schemas) : schemas[k] = SCIMBulkRequestSchema

\* (mutant) GET is taken for a valid method
validMethods_withGET == {"GET", "POST", "PUT", "PATCH", "DELETE"}

validMethods == {"POST", "PUT", "PATCH", "DELETE"}

\* the %v of an id member of a decoded response
FormatId(v) == IF v.t = "string" THEN v.s ELSE "?"

\* (mutant) the body is kept as a string, parseable or not
executeSCIMOperation_finish_undecoded(op, respBody, statusCode) ==
    SCIMBulkOperationResponse(op.Method, op.BulkId, "", Sprintf_d(statusCode),
        IF respBody.kind # "empty" THEN StringResponse(respBody) ELSE NilResponse)

\* (mutant) the location is set whatever the method
executeSCIMOperation_finish_anyMethod(op, respBody, statusCode) ==
    LET resp == IF respBody.kind # "empty"
                THEN IF ~json_Unmarshal(respBody).err
                     THEN DecodedResponse(json_Unmarshal(respBody).v)
                     ELSE StringResponse(respBody)
                ELSE NilResponse
        location ==
            IF /\ statusCode >= 200 /\ statusCode < 300
               /\ resp.kind = "decoded"
               /\ resp.v.t = "object"
               /\ "id" \in resp.v.keys
            THEN GRIST_URL \o "/api/scim/v2" \o op.Path \o "/" \o FormatId(resp.v.m["id"])
            ELSE ""
    IN  SCIMBulkOperationResponse(op.Method, op.BulkId, location,
                                  Sprintf_d(statusCode), resp)

\* executeSCIMOperation after the Transport call returned (respBody, statusCode)
executeSCIMOperation_finish(op, respBody, statusCode) ==
    LET resp == IF respBody.kind # "empty"
                THEN IF ~json_Unmarshal(respBody).err
                     THEN DecodedResponse(json_Unmarshal(respBody).v)
                     ELSE StringResponse(respBody)
                ELSE NilResponse
        location ==
            IF /\ statusCode >= 200 /\ statusCode < 300
               /\ op.Method \in {"POST", "PUT"}
               /\ resp.kind = "decoded"
               /\ resp.v.t = "object"
               /\ "id" \in resp.v.keys
            THEN GRIST_URL \o "/api/scim/v2" \o op.Path \o "/" \o FormatId(resp.v.m["id"])
            ELSE ""
    IN  SCIMBulkOperationResponse(op.Method, op.BulkId, location,
                                  Sprintf_d(statusCode), resp)

\* (mutant) the error of json.Marshal is ignored and the request sent
executeSCIMOperation_check_marshalIgnored(op) ==
    IF op.Method \notin validMethods
    THEN [local |-> TRUE,
          response |-> SCIMBulkOperationResponse(op.Method, op.BulkId, "",
              <<"4", "0", "0">>,
              SCIMError("Invalid method: " \o op.Method, <<"4", "0", "0">>,
                        "invalidSyntax"))]
    ELSE IF op.Path = ""
    THEN [local |-> TRUE,
          response |-> SCIMBulkOperationResponse(op.Method, op.BulkId, "",
              <<"4", "0", "0">>,
              SCIMError("Path is required", <<"4", "0", "0">>, "invalidSyntax"))]
    ELSE IF op.Method \notin {"POST", "PUT", "PATCH", "DELETE"}
    THEN \* no case of the switch: respBody and statusCode keep their zero values
         [local |-> TRUE,
          response |-> executeSCIMOperation_finish(op, EmptyText, 0)]
    ELSE LET scimPath == "scim/v2" \o op.Path
             bodyJSON == IF op.Data.go # "nil"
                         THEN json_Marshal(op.Data).text
                         ELSE EmptyText
         IN  [local |-> FALSE,
              call |-> CASE op.Method = "POST" -> httpPost(scimPath, bodyJSON)
                         [] op.Method = "PUT" -> httpPut(scimPath, bodyJSON)
                         [] op.Method = "PATCH" -> httpPatch(scimPath, bodyJSON)
                         [] op.Method = "DELETE" -> httpDelete(scimPath, bodyJSON)]

\* (mutant) the path is checked before the method
executeSCIMOperation_check_pathFirst(op) ==
    IF op.Path = ""
    THEN [local |-> TRUE,
          response |-> SCIMBulkOperationResponse(op.Method, op.BulkId, "",
              <<"4", "0", "0">>,
              SCIMError("Path is required", <<"4", "0", "0">>, "invalidSyntax"))]
    ELSE IF op.Method \notin validMethods
    THEN [local |-> TRUE,
          response |-> SCIMBulkOperationResponse(op.Method, op.BulkId, "",
              <<"4", "0", "0">>,
              SCIMError("Invalid method: " \o op.Method, <<"4", "0", "0">>,
                        "invalidSyntax"))]
    ELSE IF op.Data.go # "nil" /\ json_Marshal(op.Data).err
    THEN [local |-> TRUE,
          response |-> SCIMBulkOperationResponse(op.Method, op.BulkId, "",
              <<"4", "0", "0">>,
              SCIMError("Invalid request data", <<"4", "0", "0">>,
                        "invalidSyntax"))]
    ELSE IF op.Method \notin {"POST", "PUT", "PATCH", "DELETE"}
    THEN \* no case of the switch: respBody and statusCode keep their zero values
         [local |-> TRUE,
          response |-> executeSCIMOperation_finish(op, EmptyText, 0)]
    ELSE LET scimPath == "scim/v2" \o op.Path
             bodyJSON == IF op.Data.go # "nil"
                         THEN json_Marshal(op.Data).text
                         ELSE EmptyText
         IN  [local |-> FALSE,
              call |-> CASE op.Method = "POST" -> httpPost(scimPath, bodyJSON)
                         [] op.Method = "PUT" -> httpPut(scimPath, bodyJSON)
                         [] op.Method = "PATCH" -> httpPatch(scimPath, bodyJSON)
                         [] op.Method = "DELETE" -> httpDelete(scimPath, bodyJSON)]

\* executeSCIMOperation up to the Transport call: either the operation is
\* answered locally (local, with its response) or a request is to be sent
executeSCIMOperation_check(op) ==
    IF op.Method \notin validMethods
    THEN [local |-> TRUE,
          response |-> SCIMBulkOperationResponse(op.Method, op.BulkId, "",
              <<"4", "0", "0">>,
              SCIMError("Invalid method: " \o op.Method, <<"4", "0", "0">>,
                        "invalidSyntax"))]
    ELSE IF op.Path = ""
    THEN [local |-> TRUE,
          response |-> SCIMBulkOperationResponse(op.Method, op.BulkId, "",
              <<"4", "0", "0">>,
              SCIMError("Path is required", <<"4", "0", "0">>, "invalidSyntax"))]
    ELSE IF op.Data.go # "nil" /\ json_Marshal(op.Data).err
    THEN [local |-> TRUE,
          response |-> SCIMBulkOperationResponse(op.Method, op.BulkId, "",
              <<"4", "0", "0">>,
              SCIMError("Invalid request data", <<"4", "0", "0">>,
                        "invalidSyntax"))]
    ELSE IF op.Method \notin {"POST", "PUT", "PATCH", "DELETE"}
    THEN \* no case of the switch: respBody and statusCode keep their zero values
         [local |-> TRUE,
          response |-> executeSCIMOperation_finish(op, EmptyText, 0)]
    ELSE LET scimPath == "scim/v2" \o op.Path
             bodyJSON == IF op.Data.go # "nil"
                         THEN json_Marshal(op.Data).text
                         ELSE EmptyText
         IN  [local |-> FALSE,
              call |-> CASE op.Method = "POST" -> httpPost(scimPath, bodyJSON)
                         [] op.Method = "PUT" -> httpPut(scimPath, bodyJSON)
                         [] op.Method = "PATCH" -> httpPatch(scimPath, bodyJSON)
                         [] op.Method = "DELETE" -> httpDelete(scimPath, bodyJSON)]

\* (mutant) the loop stops one error late
failOnErrorsReached_late(failOnErrors, count) ==
    failOnErrors > 0 /\ count > failOnErrors

\* (mutant) a negative threshold is taken by its magnitude
failOnErrorsReached_magnitude(failOnErrors, count) ==
    \/ failOnErrors > 0 /\ count >= failOnErrors
    \/ failOnErrors < 0 /\ count >= 0 - failOnErrors

\* (mutant) a threshold of 0 is not taken for "unlimited"
failOnErrorsReached_unguarded(failOnErrors, count) ==
    count >= failOnErrors

\* SCIMBulk's early-stop test, made after errorCount was incremented
failOnErrorsReached(failOnErrors, count) ==
    failOnErrors > 0 /\ count >= failOnErrors

\* (mutant) a negative status is taken for a failure as well
operationFailed_orNegative(opResponse) ==
    \/ Sscanf_d(opResponse.Status, 0) >= 400
    \/ Sscanf_d(opResponse.Status, 0) < 0

\* (mutant) a status of exactly 400 is not taken for a failure
operationFailed_above400(opResponse) == Sscanf_d(opResponse.Status, 0) > 400

\* whether SCIMBulk counts an operation response as an error
operationFailed(opResponse) == Sscanf_d(opResponse.Status, 0) >= 400

\* (mutant) a failed operation fails the call
SCIMBulk_return_failing(operations) ==
    [Operations |-> operations,
     status |-> IF \E k \in 1..Len(operations) : operationFailed(operations[k])
                THEN StatusBadRequest ELSE StatusOK]

\* SCIMBulk's final return statement
SCIMBulk_return(operations) == [Operations |-> operations, status |-> StatusOK]

\* SCIMBulk's loop from operation k on, as a function of what Transport
\* returns to the calls it makes (transportReplies, in order): operations
\* holds the responses so far and count the errors so far
RECURSIVE SCIMBulk_loop(_, _, _, _, _)
SCIMBulk_loop(req, k, transportReplies, operations, count) ==
    IF k > Len(req.Operations) THEN SCIMBulk_return(operations)
    ELSE LET c == executeSCIMOperation_check(req.Operations[k])
             opResponse ==
                 IF c.local THEN c.response
                 ELSE executeSCIMOperation_finish(req.Operations[k],
                          Head(transportReplies).body, Head(transportReplies).status)
             rest == IF c.local THEN transportReplies ELSE Tail(transportReplies)
             count2 == IF operationFailed(opResponse) THEN count + 1 ELSE count
         IN  IF /\ operationFailed(opResponse)
                /\ failOnErrorsReached(req.FailOnErrors, count2)
             THEN SCIMBulk_return(Append(operations, opResponse))
             ELSE SCIMBulk_loop(req, k + 1, rest, Append(operations, opResponse), count2)

\* SCIMBulk(request), given what Transport returns to its calls
SCIMBulk(req, transportReplies) ==
    IF ~schemaValid(req.Schemas)
    THEN [Operations |-> <<>>, status |-> StatusBadRequest]
    ELSE SCIMBulk_loop(req, 1, transportReplies, <<>>, 0)

(***************************************************************************)
(* SCIMBulkFromJSON: json.Unmarshal into a SCIMBulkRequest.                *)
(***************************************************************************)
HasMember(v, key) == key \in v.keys /\ v.m[key].t # "null"

\* a string field of a struct: absent or null leaves "", a string sets it,
\* any other JSON value is an UnmarshalTypeError
StringField(v, key) ==
    IF ~HasMember(v, key) THEN [err |-> FALSE, s |-> ""]
    ELSE IF v.m[key].t = "string" THEN [err |-> FALSE, s |-> v.m[key].s]
    ELSE [err |-> TRUE, s |-> ""]

\* an element of Operations: it must be an object; data is kept as decoded
DecodeOperation(v) ==
    IF v.t # "object" THEN [err |-> v.t # "null",
                            op |-> [Method |-> "", Path |-> "", BulkId |-> "",
                                    Data |-> [go |-> "nil"]]]
    ELSE [err |-> \/ StringField(v, "method").err
                  \/ StringField(v, "path").err
                  \/ StringField(v, "bulkId").err,
          op |-> [Method |-> StringField(v, "method").s,
                  Path |-> StringField(v, "path").s,
                  BulkId |-> StringField(v, "bulkId").s,
                  Data |-> IF HasMember(v, "data")
                           THEN [go |-> "value", v |-> v.m["data"]]
                           ELSE [go |-> "nil"]]]

\* json.Unmarshal([]byte(jsonBody), &request): (request, err).  A text that
\* is no JSON, a JSON value that is no object, or a member of the wrong type
\* is an error; absent members keep their zero value
json_Unmarshal_SCIMBulkRequest(text) ==
    LET zero == [Schemas |-> <<>>, FailOnErrors |-> 0, Operations |-> <<>>]
    IN
    IF text.kind # "json" THEN [err |-> TRUE, request |-> zero]
    ELSE IF text.v.t = "null" THEN [err |-> FALSE, request |-> zero]
    ELSE IF text.v.t # "object" THEN [err |-> TRUE, request |-> zero]
    ELSE
    LET v == text.v
        schemasBad ==
            /\ HasMember(v, "schemas")
            /\ \/ v.m["schemas"].t # "array"
               \/ \E k \in 1..Len(v.m["schemas"].a) : v.m["schemas"].a[k].t # "string"
        schemas ==
            IF HasMember(v, "schemas") /\ ~schemasBad
            THEN [k \in 1..Len(v.m["schemas"].a) |-> v.m["schemas"].a[k].s]
            ELSE <<>>
        failBad == HasMember(v, "failOnErrors") /\ v.m["failOnErrors"].t # "number"
        failOnErrors ==
            IF HasMember(v, "failOnErrors") /\ ~failBad
            THEN v.m["failOnErrors"].n ELSE 0
        opsBad ==
            /\ HasMember(v, "Operations")
            /\ \/ v.m["Operations"].t # "array"
               \/ \E k \in 1..Len(v.m["Operations"].a) :
                      DecodeOperation(v.m["Operations"].a[k]).err
        operations ==
            IF HasMember(v, "Operations") /\ ~opsBad
            THEN [k \in 1..Len(v.m["Operations"].a) |->
                     DecodeOperation(v.m["Operations"].a[k]).op]
            ELSE <<>>
    IN  IF schemasBad \/ failBad \/ opsBad
        THEN [err |-> TRUE, request |-> zero]
        ELSE [err |-> FALSE,
              request |-> [Schemas |-> schemas, FailOnErrors |-> failOnErrors,
                           Operations |-> operations]]

\* (mutant) the synthesized error operation is left out
SCIMBulkFromJSON_error_empty ==
    [Operations |-> <<>>, status |-> StatusBadRequest]

\* the response SCIMBulkFromJSON returns for a text it cannot parse
SCIMBulkFromJSON_error ==
    [Operations |->
        <<SCIMBulkOperationResponse("", "", "", <<"4", "0", "0">>,
              SCIMError("Invalid JSON in request body", <<"4", "0", "0">>,
                        "invalidSyntax"))>>,
     status |-> StatusBadRequest]

(***************************************************************************)
(* Inputs.                                                                 *)
(***************************************************************************)
\* a payload encoding/json can encode
UserData == GoValue(JObject({"userName"}, [k \in {"userName"} |-> JString("testuser")]))

\* the operations requests are built from: one that is sent with a body and
\* may get a location, one that is sent without body or bulkId, and one per
\* local rejection of executeSCIMOperation
OpPool ==
    { SCIMBulkOperation("POST", "/Users", "op1", UserData),
      SCIMBulkOperation("DELETE", "/Users/user2", "", GoNil),
      SCIMBulkOperation("GET", "/Users", "op3", GoNil),
      SCIMBulkOperation("PUT", "", "op4", UserData),
      SCIMBulkOperation("PATCH", "/Users/user1", "op5", GoUnsupported) }

SchemaLists ==
    { <<>>, <<"invalid:schema">>, <<"invalid:schema", SCIMBulkRequestSchema>> }

SeqsUpTo(S, n) == UNION { [1..k -> S] : k \in 0..n }

\* the operations of the requests that hold one operation: every method
\* (two that are not allowed included), with and without path, bulkId and
\* data
SingleOpPool ==
    { SCIMBulkOperation(method, path, bulkId, data) :
        method \in {"POST", "PUT", "PATCH", "DELETE", "GET", ""},
        path \in {"", "/Users/user1"},
        bulkId \in {"", "op1"},
        data \in {GoNil, UserData, GoUnsupported} }

\* failOnErrors is a signed int: a negative threshold can be asked for
FailOnErrorsValues == {-1} \cup (0..MaxFailOnErrors)

Requests ==
    { SCIMBulkRequest(s, f, ops) :
        s \in SchemaLists, f \in FailOnErrorsValues, ops \in SeqsUpTo(OpPool, MaxOps) }
    \cup
    { SCIMBulkRequest(s, f, <<op>>) :
        s \in SchemaLists, f \in 0..MaxFailOnErrors, op \in SingleOpPool }

\* the JSON a client writes for an operation and for a request (omitempty
\* members are left out)
OperationJSON(op) ==
    LET keys == {"method", "path"}
                \cup (IF op.BulkId # "" THEN {"bulkId"} ELSE {})
                \cup (IF op.Data.go = "value" THEN {"data"} ELSE {})
    IN  JObject(keys, [k \in keys |->
            CASE k = "method" -> JString(op.Method)
              [] k = "path" -> JString(op.Path)
              [] k = "bulkId" -> JString(op.BulkId)
              [] k = "data" -> op.Data.v])

RequestJSON(req) ==
    LET keys == {"schemas", "Operations"}
                \cup (IF req.FailOnErrors # 0 THEN {"failOnErrors"} ELSE {})
    IN  JObject(keys, [k \in keys |->
            CASE k = "schemas" ->
                    JArray([j \in 1..Len(req.Schemas) |-> JString(req.Schemas[j])])
              [] k = "Operations" ->
                    JArray([j \in 1..Len(req.Operations) |->
                               OperationJSON(req.Operations[j])])
              [] k = "failOnErrors" -> JNumber(req.FailOnErrors)])

\* the texts passed to SCIMBulkFromJSON: texts that do not parse as a bulk
\* request, texts that parse to the zero request, and written requests
JsonBodies ==
    { EmptyText,
      RawText("{invalid json}"),
      JsonText(JArray(<<>>)),
      JsonText(JObject({"schemas"}, [k \in {"schemas"} |-> JString("x")])),
      JsonText(JObject({"Operations"},
                       [k \in {"Operations"} |-> JArray(<<JString("x")>>)])),
      JsonText(JNull),
      JsonText(JObject({}, <<>>)) }
    \cup
    { JsonText(RequestJSON(SCIMBulkRequest(s, f, ops))) :
        s \in SchemaLists, f \in 0..MaxFailOnErrors,
        ops \in SeqsUpTo({o \in OpPool : o.Data.go # "unsupported"}, MaxJsonOps) }

DocIds == {"doc123"}
TableIds == {"Table1"}

\* field maps: one encoding/json can encode, one it cannot
NameFields == GoValue(JObject({"name"}, [k \in {"name"} |-> JString("Alice")]))
FieldMaps == {NameFields, GoUnsupported}

\* the field maps passed to AddRecords: a second one that can be encoded,
\* so that the order of the records shows
AgeFields == GoValue(JObject({"age"}, [k \in {"age"} |-> JNumber(30)]))
AddFieldMaps == FieldMaps \cup {AgeFields}

\* a filter: map[string][]interface{}
NameFilter == GoValue(JObject({"name"}, [k \in {"name"} |-> JArray(<<JString("Alice")>>)]))

GetRecordsOptionsSet ==
    {NilOptions} \cup
    { [nil |-> FALSE, Filter |-> f, Sort |-> srt, Limit |-> l, Hidden |-> h] :
        f \in {GoNil, NameFilter, GoUnsupported}, srt \in {"", "name"},
        l \in {-1, 0, 10}, h \in BOOLEAN }

NoParseOptionsSet == {NilOptions} \cup { [nil |-> FALSE, NoParse |-> b] : b \in BOOLEAN }

UpsertRecordsOptionsSet ==
    {NilOptions} \cup
    { [nil |-> FALSE, OnMany |-> o, NoAdd |-> a, NoUpdate |-> u,
       AllowEmptyRequire |-> e, NoParse |-> np] :
        o \in {"", "all"}, a \in BOOLEAN, u \in BOOLEAN, e \in BOOLEAN,
        np \in BOOLEAN }

RecordSet == { [Id |-> i, Fields |-> f] : i \in {0, 1}, f \in FieldMaps }

RecordWithRequireSet ==
    { [Require |-> NameFields, Fields |-> f] : f \in FieldMaps \cup {GoNil} }
    \cup { [Require |-> GoUnsupported, Fields |-> GoNil] }

RecordIds == {1, 2}

\* map[string]string arguments of buildRecordsQueryParams: every map over
\* some of three keys, each value empty or not
ParamValues ==
    [k \in {"limit", "sort", "hidden"} |->
        CASE k = "limit" -> {"", "10"}
          [] k = "sort" -> {"", "name"}
          [] k = "hidden" -> {"", "true"}]

ParamMaps ==
    UNION { { m \in [keys -> {"", "10", "name", "true"}] :
                \A k \in keys : m[k] \in ParamValues[k] } :
            keys \in SUBSET {"limit", "sort", "hidden"} }

(***************************************************************************)
(* The terminal UI (package tui, src/unnamed/part_006).                    *)
(*                                                                         *)
(* The program is a Bubble Tea model: Update handles one message at a      *)
(* time, a key press or the message a command produced.  A command runs    *)
(* in its own goroutine from the moment Update returns it; its message     *)
(* reaches Update at any later time, in any order with the key presses and *)
(* with the messages of the other commands.  The spinner, the window size, *)
(* the status line (message, err), the table data and the scroll offsets   *)
(* are left out: Update stores them and never reads them.  Cursors and     *)
(* slice indices count from 0 as in the source; position k of a Go slice   *)
(* is element k + 1 of a sequence.                                         *)
(***************************************************************************)
ViewOrgs == "Organizations"
ViewWorkspaces == "Workspaces"
ViewDocs == "Documents"
ViewDocActions == "Document Actions"
ViewTables == "Tables"
ViewTableData == "Table Data"
ViewTableActions == "Table Actions"
ViewDocAccess == "Document Access"
ViewConfirmDelete == "Confirm Delete"

ActionViewTables == 0
ActionExportExcel == 1
ActionExportGrist == 2
ActionViewAccess == 3
ActionDelete == 4

docActionLabels ==
    <<"View Tables", "Export as Excel (.xlsx)", "Export as Grist (.grist)",
      "View Access", "Delete Document">>

TableActionViewData == 0
TableActionExportCSV == 1

tableActionLabels == <<"View Data", "Export as CSV">>

\* a pointer: nil, or the address of a copy of v
Nil == [ptr |-> "nil"]
AddressOf(v) == [ptr |-> "value", v |-> v]

\* a []string: its backing array and its length (the capacity is the
\* length of the array)
NilSlice == [arr |-> <<>>, len |-> 0]
SliceLiteral(s) == [arr |-> s, len |-> Len(s)]

\* append(b, x): in place when the capacity allows, else into a new array
\* of twice the capacity
append(b, x) ==
    IF b.len < Len(b.arr)
    THEN [arr |-> [b.arr EXCEPT ![b.len + 1] = x], len |-> b.len + 1]
    ELSE LET newcap == IF Len(b.arr) = 0 THEN 1 ELSE 2 * Len(b.arr)
         IN  [arr |-> [k \in 1..newcap |->
                          IF k <= b.len THEN b.arr[k]
                          ELSE IF k = b.len + 1 THEN x ELSE ""],
              len |-> b.len + 1]

\* b[:n] is in range up to the capacity of b
InRange(b, n) == n <= Len(b.arr)
Reslice(b, n) == [arr |-> b.arr, len |-> n]

(***************************************************************************)
(* What the gristapi functions return to the commands: the list the Grist  *)
(* server holds or, when the call fails, the zero value (an empty list).   *)
(***************************************************************************)
Doc(i) == [Id |-> "doc" \o strconv_Itoa(i), Name |-> "Doc " \o strconv_Itoa(i),
           IsPinned |-> (i = 1)]

Org(i) == [Id |-> i, Name |-> "org" \o strconv_Itoa(i)]

Workspace(i) == [Id |-> i, Name |-> "ws" \o strconv_Itoa(i),
                 Docs |-> IF i = 1 THEN <<Doc(1)>> ELSE <<>>]

Table(i) == [Id |-> "Table" \o strconv_Itoa(i)]

User(i) == [Name |-> "user" \o strconv_Itoa(i),
            Email |-> "user" \o strconv_Itoa(i) \o "@example.com",
            Access |-> IF i = 1 THEN "" ELSE "editors",
            ParentAccess |-> IF i = 1 THEN "owners" ELSE ""]

\* GetWorkspace(id): the workspace with its document, or the zero value
\* (no name, no document) when the call fails
WorkspacesReturned(id) ==
    { [Id |-> id, Name |-> "ws" \o strconv_Itoa(id), Docs |-> <<Doc(1)>>],
      [Id |-> 0, Name |-> "", Docs |-> <<>>] }

(***************************************************************************)
(* Commands and the messages they produce.                                 *)
(***************************************************************************)
NoCmd == [name |-> "none"]
loadOrgs == [name |-> "loadOrgs"]
loadWorkspaces(orgID) == [name |-> "loadWorkspaces", orgID |-> orgID]
loadDocs(workspaceID) == [name |-> "loadDocs", workspaceID |-> workspaceID]
loadTables(docID) == [name |-> "loadTables", docID |-> docID]
exportExcel(docID) == [name |-> "exportExcel", docID |-> docID]
exportGrist(docID) == [name |-> "exportGrist", docID |-> docID]
loadTableData(docID, tableID) ==
    [name |-> "loadTableData", docID |-> docID, tableID |-> tableID]
loadDocAccess(docID) == [name |-> "loadDocAccess", docID |-> docID]
deleteDoc(docID) == [name |-> "deleteDoc", docID |-> docID]
exportTableCSV(docID, tableID) ==
    [name |-> "exportTableCSV", docID |-> docID, tableID |-> tableID]

\* the messages a command can end with
MessagesOf(cmd) ==
    CASE cmd.name = "loadOrgs" ->
            { [type |-> "orgsLoadedMsg", orgs |-> l] : l \in {<<>>, <<Org(1)>>} }
      [] cmd.name = "loadWorkspaces" ->
            { [type |-> "workspacesLoadedMsg", workspaces |-> l] :
                l \in {<<>>, <<Workspace(1), Workspace(2)>>} }
      [] cmd.name = "loadDocs" ->
            { [type |-> "docsLoadedMsg", docs |-> w.Docs, workspace |-> w] :
                w \in WorkspacesReturned(cmd.workspaceID) }
      [] cmd.name = "loadTables" ->
            { [type |-> "tablesLoadedMsg", tables |-> l] : l \in {<<>>, <<Table(1)>>} }
      [] cmd.name = "loadTableData" ->
            { [type |-> "tableDataLoadedMsg"] }
      [] cmd.name = "loadDocAccess" ->
            { [type |-> "docAccessLoadedMsg", users |-> l] : l \in {<<>>, <<User(1)>>} }
      [] cmd.name = "deleteDoc" -> { [type |-> "docDeletedMsg"] }
      [] cmd.name = "exportTableCSV" -> { [type |-> "csvExportedMsg"] }
      [] cmd.name \in {"exportExcel", "exportGrist"} -> { [type |-> "successMsg"] }

(***************************************************************************)
(* The model and its handlers.  A handler gives the model it returns, the  *)
(* command it returns and how it ends: it returns, it returns tea.Quit, or *)
(* it panics on an index or a slice bound out of range.                    *)
(***************************************************************************)
New ==
    [view |-> ViewOrgs, breadcrumb |-> NilSlice,
     orgs |-> <<>>, workspaces |-> <<>>, docs |-> <<>>, tables |-> <<>>,
     docAccess |-> <<>>,
     selectedOrg |-> Nil, selectedWorkspace |-> Nil, selectedDoc |-> Nil,
     selectedTable |-> Nil,
     cursor |-> 0, items |-> <<>>, loading |-> TRUE]

Continue(m, cmd) == [model |-> m, cmd |-> cmd, end |-> "return"]
Quit(m) == [model |-> m, cmd |-> NoCmd, end |-> "quit"]
Panic(m, what) == [model |-> m, cmd |-> NoCmd, end |-> what]
IndexOutOfRange == "panic: index out of range"
SliceBoundsOutOfRange == "panic: slice bounds out of range"

updateOrgsList(m) ==
    [m EXCEPT !.items = [i \in 1..Len(m.orgs) |-> m.orgs[i].Name]]

updateWorkspacesList(m) ==
    [m EXCEPT !.items = [i \in 1..Len(m.workspaces) |->
        m.workspaces[i].Name \o " ("
            \o strconv_Itoa(Len(m.workspaces[i].Docs)) \o " docs)"]]

updateDocsList(m) ==
    [m EXCEPT !.items = [i \in 1..Len(m.docs) |->
        m.docs[i].Name \o (IF m.docs[i].IsPinned THEN " [pinned]" ELSE "")]]

updateActionsList(m) == [m EXCEPT !.items = docActionLabels]

updateTablesList(m) ==
    [m EXCEPT !.items = [i \in 1..Len(m.tables) |-> m.tables[i].Id]]

updateTableActionsList(m) == [m EXCEPT !.items = tableActionLabels]

updateAccessList(m) ==
    [m EXCEPT !.items = [i \in 1..Len(m.docAccess) |->
        LET user == m.docAccess[i]
            access == IF user.Access # "" THEN user.Access
                      ELSE IF user.ParentAccess # ""
                           THEN user.ParentAccess \o " (inherited)"
                           ELSE ""
        IN  user.Name \o " <" \o user.Email \o "> - " \o access]]

\* (mutant) the confirmation opens with the cursor on "Yes"
handleDocAction_defaultYes(m, action) ==
    IF m.selectedDoc = Nil
    THEN Continue(m, NoCmd)
    ELSE LET docID == m.selectedDoc.v.Id
         IN  CASE action = ActionViewTables ->
                    Continue([m EXCEPT !.view = ViewTables, !.cursor = 0,
                                           !.loading = TRUE],
                             loadTables(docID))
               [] action = ActionExportExcel ->
                    Continue([m EXCEPT !.loading = TRUE], exportExcel(docID))
               [] action = ActionExportGrist ->
                    Continue([m EXCEPT !.loading = TRUE], exportGrist(docID))
               [] action = ActionViewAccess ->
                    Continue([m EXCEPT !.view = ViewDocAccess, !.cursor = 0,
                                           !.loading = TRUE],
                             loadDocAccess(docID))
               [] action = ActionDelete ->
                    Continue([m EXCEPT !.view = ViewConfirmDelete, !.cursor = 0,
                                           !.items = <<"Yes, delete this document",
                                                        "No, cancel">>],
                             NoCmd)
               [] OTHER -> Continue(m, NoCmd)

handleDocAction(m, action) ==
    IF m.selectedDoc = Nil
    THEN Continue(m, NoCmd)
    ELSE LET docID == m.selectedDoc.v.Id
         IN  CASE action = ActionViewTables ->
                    Continue([m EXCEPT !.view = ViewTables, !.cursor = 0,
                                           !.loading = TRUE],
                             loadTables(docID))
               [] action = ActionExportExcel ->
                    Continue([m EXCEPT !.loading = TRUE], exportExcel(docID))
               [] action = ActionExportGrist ->
                    Continue([m EXCEPT !.loading = TRUE], exportGrist(docID))
               [] action = ActionViewAccess ->
                    Continue([m EXCEPT !.view = ViewDocAccess, !.cursor = 0,
                                           !.loading = TRUE],
                             loadDocAccess(docID))
               [] action = ActionDelete ->
                    Continue([m EXCEPT !.view = ViewConfirmDelete, !.cursor = 1,
                                           !.items = <<"Yes, delete this document",
                                                        "No, cancel">>],
                             NoCmd)
               [] OTHER -> Continue(m, NoCmd)

handleTableAction(m, action) ==
    IF m.selectedDoc = Nil \/ m.selectedTable = Nil
    THEN Continue(m, NoCmd)
    ELSE LET docID == m.selectedDoc.v.Id
             tableID == m.selectedTable.v.Id
         IN  CASE action = TableActionViewData ->
                    Continue([m EXCEPT !.view = ViewTableData, !.loading = TRUE],
                             loadTableData(docID, tableID))
               [] action = TableActionExportCSV ->
                    Continue([m EXCEPT !.loading = TRUE],
                             exportTableCSV(docID, tableID))
               [] OTHER -> Continue(m, NoCmd)

handleSelect(m) ==
    IF Len(m.items) = 0 \/ m.loading
    THEN Continue(m, NoCmd)
    ELSE CASE m.view = ViewOrgs ->
                IF m.cursor >= Len(m.orgs)
                THEN Panic(m, IndexOutOfRange)
                ELSE LET org == m.orgs[m.cursor + 1]
                     IN  Continue([m EXCEPT !.selectedOrg = AddressOf(org),
                                        !.breadcrumb = SliceLiteral(<<org.Name>>),
                                        !.view = ViewWorkspaces, !.cursor = 0,
                                        !.loading = TRUE],
                                  loadWorkspaces(org.Id))
           [] m.view = ViewWorkspaces ->
                IF m.cursor >= Len(m.workspaces)
                THEN Panic(m, IndexOutOfRange)
                ELSE LET ws == m.workspaces[m.cursor + 1]
                     IN  Continue([m EXCEPT !.selectedWorkspace = AddressOf(ws),
                                        !.breadcrumb = append(m.breadcrumb, ws.Name),
                                        !.view = ViewDocs, !.cursor = 0,
                                        !.loading = TRUE],
                                  loadDocs(ws.Id))
           [] m.view = ViewDocs ->
                IF Len(m.docs) = 0
                THEN Continue(m, NoCmd)
                ELSE IF m.cursor >= Len(m.docs)
                THEN Panic(m, IndexOutOfRange)
                ELSE LET doc == m.docs[m.cursor + 1]
                     IN  Continue(updateActionsList(
                                    [m EXCEPT !.selectedDoc = AddressOf(doc),
                                        !.breadcrumb = append(m.breadcrumb, doc.Name),
                                        !.view = ViewDocActions, !.cursor = 0]),
                                  NoCmd)
           [] m.view = ViewDocActions ->
                handleDocAction(m, m.cursor)
           [] m.view = ViewTables ->
                IF Len(m.tables) = 0
                THEN Continue(m, NoCmd)
                ELSE IF m.cursor >= Len(m.tables)
                THEN Panic(m, IndexOutOfRange)
                ELSE LET table == m.tables[m.cursor + 1]
                     IN  Continue(updateTableActionsList(
                                    [m EXCEPT !.selectedTable = AddressOf(table),
                                        !.breadcrumb = append(m.breadcrumb, table.Id),
                                        !.view = ViewTableActions, !.cursor = 0]),
                                  NoCmd)
           [] m.view = ViewTableActions ->
                handleTableAction(m, m.cursor)
           [] m.view = ViewConfirmDelete ->
                IF m.cursor = 0 /\ m.selectedDoc # Nil
                THEN Continue([m EXCEPT !.loading = TRUE],
                              deleteDoc(m.selectedDoc.v.Id))
                ELSE Continue(updateActionsList(
                                [m EXCEPT !.view = ViewDocActions, !.cursor = 0]),
                              NoCmd)
           [] OTHER -> Continue(m, NoCmd)

\* a handler that cuts the breadcrumb to length n ends with the model moved,
\* or with a panic when n is beyond the capacity
BackTo(m, n, moved) ==
    IF ~InRange(m.breadcrumb, n)
    THEN Panic(m, SliceBoundsOutOfRange)
    ELSE Continue(moved, NoCmd)

handleBack(m) ==
    CASE m.view = ViewOrgs -> Quit(m)
      [] m.view = ViewWorkspaces ->
            Continue(updateOrgsList([m EXCEPT !.view = ViewOrgs,
                                              !.selectedOrg = Nil,
                                              !.breadcrumb = NilSlice,
                                              !.cursor = 0]),
                     NoCmd)
      [] m.view = ViewDocs ->
            BackTo(m, 1, updateWorkspacesList(
                            [m EXCEPT !.view = ViewWorkspaces,
                                      !.selectedWorkspace = Nil,
                                      !.breadcrumb = Reslice(m.breadcrumb, 1),
                                      !.cursor = 0]))
      [] m.view = ViewDocActions ->
            BackTo(m, 2, updateDocsList(
                            [m EXCEPT !.view = ViewDocs,
                                      !.selectedDoc = Nil,
                                      !.breadcrumb = Reslice(m.breadcrumb, 2),
                                      !.cursor = 0]))
      [] m.view = ViewTables ->
            BackTo(m, 3, updateActionsList(
                            [m EXCEPT !.view = ViewDocActions,
                                      !.breadcrumb = Reslice(m.breadcrumb, 3),
                                      !.cursor = 0]))
      [] m.view = ViewTableActions ->
            BackTo(m, 3, updateTablesList(
                            [m EXCEPT !.view = ViewTables,
                                      !.selectedTable = Nil,
                                      !.breadcrumb = Reslice(m.breadcrumb, 3),
                                      !.cursor = 0]))
      [] m.view = ViewTableData ->
            BackTo(m, 4, updateTableActionsList(
                            [m EXCEPT !.view = ViewTableActions,
                                      !.breadcrumb = Reslice(m.breadcrumb, 4),
                                      !.cursor = 0]))
      [] m.view = ViewDocAccess ->
            BackTo(m, 3, updateActionsList(
                            [m EXCEPT !.view = ViewDocActions,
                                      !.breadcrumb = Reslice(m.breadcrumb, 3),
                                      !.cursor = 0]))
      [] m.view = ViewConfirmDelete ->
            Continue(updateActionsList([m EXCEPT !.view = ViewDocActions,
                                                 !.cursor = 0]),
                     NoCmd)

\* (mutant) Back on the confirmation leaves the document
Update_key_backLeavesDocument(m, binding) ==
    CASE binding = "Quit" -> Quit(m)
      [] binding = "Up" ->
            Continue(IF m.cursor > 0
                     THEN [m EXCEPT !.cursor = m.cursor - 1]
                     ELSE m, NoCmd)
      [] binding = "Down" ->
            Continue(IF m.cursor < Len(m.items) - 1
                     THEN [m EXCEPT !.cursor = m.cursor + 1]
                     ELSE m, NoCmd)
      [] binding = "Select" -> handleSelect(m)
      [] binding = "Back" ->
            IF m.view = ViewConfirmDelete
            THEN BackTo(m, 2, updateDocsList(
                            [m EXCEPT !.view = ViewDocs,
                                      !.selectedDoc = Nil,
                                      !.breadcrumb = Reslice(m.breadcrumb, 2),
                                      !.cursor = 0]))
            ELSE handleBack(m)

\* Update for a key press, by the binding the key matches
Update_key(m, binding) ==
    CASE binding = "Quit" -> Quit(m)
      [] binding = "Up" ->
            Continue(IF m.cursor > 0
                     THEN [m EXCEPT !.cursor = m.cursor - 1]
                     ELSE m, NoCmd)
      [] binding = "Down" ->
            Continue(IF m.cursor < Len(m.items) - 1
                     THEN [m EXCEPT !.cursor = m.cursor + 1]
                     ELSE m, NoCmd)
      [] binding = "Select" -> handleSelect(m)
      [] binding = "Back" -> handleBack(m)

\* Update for the message of a command
Update_msg(m, msg) ==
    LET loaded == [m EXCEPT !.loading = FALSE]
    IN  CASE msg.type = "orgsLoadedMsg" ->
                Continue(updateOrgsList([loaded EXCEPT !.orgs = msg.orgs]), NoCmd)
          [] msg.type = "workspacesLoadedMsg" ->
                Continue(updateWorkspacesList(
                            [loaded EXCEPT !.workspaces = msg.workspaces]), NoCmd)
          [] msg.type = "docsLoadedMsg" ->
                Continue(updateDocsList(
                            [loaded EXCEPT !.docs = msg.docs,
                                !.selectedWorkspace =
                                    IF m.selectedWorkspace # Nil
                                    THEN AddressOf(msg.workspace)
                                    ELSE Nil]), NoCmd)
          [] msg.type = "tablesLoadedMsg" ->
                Continue(updateTablesList([loaded EXCEPT !.tables = msg.tables]), NoCmd)
          [] msg.type = "tableDataLoadedMsg" ->
                Continue(loaded, NoCmd)
          [] msg.type = "docAccessLoadedMsg" ->
                Continue(updateAccessList([loaded EXCEPT !.docAccess = msg.users]), NoCmd)
          [] msg.type = "docDeletedMsg" ->
                IF ~InRange(m.breadcrumb, 2)
                THEN Panic(m, SliceBoundsOutOfRange)
                ELSE LET docs == [loaded EXCEPT !.view = ViewDocs,
                                        !.selectedDoc = Nil,
                                        !.breadcrumb = Reslice(m.breadcrumb, 2),
                                        !.cursor = 0]
                     IN  IF m.selectedWorkspace # Nil
                         THEN Continue(docs, loadDocs(m.selectedWorkspace.v.Id))
                         ELSE Continue(docs, NoCmd)
          [] msg.type \in {"csvExportedMsg", "successMsg"} ->
                Continue(loaded, NoCmd)

(***************************************************************************)
(* State.                                                                  *)
(***************************************************************************)
VARIABLES
    pc,          \* position of the running call, "idle" when none runs
    fn,          \* the API function that was called
    request,     \* SCIMBulk: its argument
    response,    \* SCIMBulk: response.Operations
    errorCount,  \* SCIMBulk: errorCount
    opIndex,     \* SCIMBulk: index of the loop's current operation
    inflight,    \* the Transport call that was issued and has not returned
    calls,       \* every Transport call issued by the running call, in order
    replies,     \* what Transport returned to each of them, in order
    jsonBody,    \* SCIMBulkFromJSON: its argument
    args,        \* a record operation: its arguments
    result,      \* a record operation: what it returned
    overall,     \* the status the running call returned (0 before it returns)
    model,       \* terminal UI: the Model the program holds
    cmds,        \* terminal UI: the commands that are running (a bag)
    program      \* terminal UI: "running", or how the program ended

coreVars == <<pc, fn, request, response, errorCount, opIndex, inflight, calls, replies,
              jsonBody, args, result, overall>>
tuiVars == <<model, cmds, program>>
vars == <<coreVars, tuiVars>>

\* the arguments of a record operation
Args(docId, tableId, records, options) ==
    [docId |-> docId, tableId |-> tableId, records |-> records, options |-> options]

NoArgs == Args("", "", <<>>, NilOptions)

scimVars == <<request, response, errorCount, opIndex, jsonBody, overall>>
recordVars == <<args, result>>

Init ==
    /\ pc = "idle"
    /\ fn = "none"
    /\ request = ZeroRequest
    /\ response = <<>>
    /\ errorCount = 0
    /\ opIndex = 0
    /\ inflight = NoCall
    /\ calls = <<>>
    /\ replies = <<>>
    /\ jsonBody = EmptyText
    /\ args = NoArgs
    /\ result = NoResult
    /\ overall = 0
    /\ model = New
    /\ cmds = SetToBag({loadOrgs})
    /\ program = "running"

(***************************************************************************)
(* SCIMBulk.                                                               *)
(***************************************************************************)
\* SCIMBulk(req) is called: response is initialised
SCIMBulkCall ==
    /\ pc = "idle"
    /\ UNCHANGED tuiVars
    /\ \E req \in Requests : request' = req
    /\ fn' = "SCIMBulk"
    /\ response' = <<>>
    /\ pc' = "ValidatingEnvelope"
    /\ UNCHANGED <<errorCount, opIndex, inflight, calls, replies, jsonBody, overall>>
    /\ UNCHANGED recordVars

\* SCIMBulkFromJSON(text) is called: a text that does not parse is answered
\* at once, a parsed request is handed to SCIMBulk
SCIMBulkFromJSONCall ==
    /\ pc = "idle"
    /\ UNCHANGED tuiVars
    /\ fn' = "SCIMBulkFromJSON"
    /\ \E text \in JsonBodies :
          LET r == json_Unmarshal_SCIMBulkRequest(text)
          IN  /\ jsonBody' = text
              /\ IF r.err
                 THEN /\ response' = SCIMBulkFromJSON_error.Operations
                      /\ overall' = SCIMBulkFromJSON_error.status
                      /\ pc' = "Done"
                      /\ request' = request
                 ELSE /\ request' = r.request
                      /\ response' = <<>>
                      /\ pc' = "ValidatingEnvelope"
                      /\ overall' = overall
    /\ UNCHANGED <<errorCount, opIndex, inflight, calls, replies>>
    /\ UNCHANGED recordVars

\* the schema validation: an envelope without the marker is rejected; with
\* the marker the loop is entered, which an empty Operations list ends at once
ValidateEnvelope ==
    /\ pc = "ValidatingEnvelope"
    /\ UNCHANGED tuiVars
    /\ IF ~schemaValid(request.Schemas)
       THEN /\ pc' = "Done"
            /\ overall' = StatusBadRequest
            /\ UNCHANGED <<errorCount, opIndex>>
       ELSE /\ errorCount' = 0
            /\ opIndex' = 1
            /\ IF Len(request.Operations) = 0
               THEN /\ pc' = "Done"
                    /\ overall' = SCIMBulk_return(response).status
               ELSE /\ pc' = "ExecutingOperations"
                    /\ overall' = overall
    /\ UNCHANGED <<fn, request, response, inflight, calls, replies, jsonBody>>
    /\ UNCHANGED recordVars

\* (mutant) the response is put in front of the list
RecordOperation_prepend(opResponse) ==
    LET count == IF operationFailed(opResponse) THEN errorCount + 1 ELSE errorCount
        ops == <<opResponse>> \o response
    IN  /\ response' = ops
        /\ errorCount' = count
        /\ IF operationFailed(opResponse)
              /\ failOnErrorsReached(request.FailOnErrors, count)
           THEN /\ pc' = "Done"
                /\ overall' = SCIMBulk_return(ops).status
                /\ opIndex' = opIndex
           ELSE /\ opIndex' = opIndex + 1
                /\ IF opIndex + 1 > Len(request.Operations)
                   THEN /\ pc' = "Done"
                        /\ overall' = SCIMBulk_return(ops).status
                   ELSE /\ pc' = "ExecutingOperations"
                        /\ overall' = overall

\* the loop body after executeSCIMOperation returned opResponse: append it,
\* count it, and leave the loop (and return) at the threshold or when that
\* was the last operation
RecordOperation(opResponse) ==
    LET count == IF operationFailed(opResponse) THEN errorCount + 1 ELSE errorCount
        ops == Append(response, opResponse)
    IN  /\ response' = ops
        /\ errorCount' = count
        /\ IF operationFailed(opResponse)
              /\ failOnErrorsReached(request.FailOnErrors, count)
           THEN /\ pc' = "Done"
                /\ overall' = SCIMBulk_return(ops).status
                /\ opIndex' = opIndex
           ELSE /\ opIndex' = opIndex + 1
                /\ IF opIndex + 1 > Len(request.Operations)
                   THEN /\ pc' = "Done"
                        /\ overall' = SCIMBulk_return(ops).status
                   ELSE /\ pc' = "ExecutingOperations"
                        /\ overall' = overall

\* one loop iteration starts: executeSCIMOperation answers locally or sends
ExecuteOperation ==
    /\ pc = "ExecutingOperations"
    /\ UNCHANGED tuiVars
    /\ opIndex <= Len(request.Operations)
    /\ LET r == executeSCIMOperation_check(request.Operations[opIndex])
       IN  IF r.local
           THEN /\ RecordOperation(r.response)
                /\ UNCHANGED <<inflight, calls, replies>>
           ELSE /\ inflight' = r.call
                /\ calls' = Append(calls, r.call)
                /\ pc' = "AwaitingTransport"
                /\ UNCHANGED <<response, errorCount, opIndex, overall, replies>>
    /\ UNCHANGED <<fn, request, jsonBody>>
    /\ UNCHANGED recordVars

\* (mutant) a request that could not be sent is sent once more
ScimTransportReturn_retry ==
    /\ pc = "AwaitingTransport"
    /\ UNCHANGED tuiVars
    /\ fn \in {"SCIMBulk", "SCIMBulkFromJSON"}
    /\ \E reply \in ScimServerReplies \cup {NetworkFailure(inflight)} :
          /\ replies' = Append(replies, reply)
          /\ IF reply.status = TransportFailure /\ Len(calls) = 1
             THEN /\ calls' = Append(calls, inflight)
                  /\ UNCHANGED <<inflight, pc, response, errorCount, opIndex, overall>>
             ELSE /\ RecordOperation(executeSCIMOperation_finish(
                         request.Operations[opIndex], reply.body, reply.status))
                  /\ inflight' = NoCall
                  /\ calls' = calls
    /\ UNCHANGED <<fn, request, jsonBody>>
    /\ UNCHANGED recordVars

\* httpRequest returns to executeSCIMOperation, which returns to the loop
ScimTransportReturn ==
    /\ pc = "AwaitingTransport"
    /\ UNCHANGED tuiVars
    /\ fn \in {"SCIMBulk", "SCIMBulkFromJSON"}
    /\ \E reply \in ScimServerReplies \cup {NetworkFailure(inflight)} :
          /\ replies' = Append(replies, reply)
          /\ RecordOperation(executeSCIMOperation_finish(
                 request.Operations[opIndex], reply.body, reply.status))
    /\ inflight' = NoCall
    /\ UNCHANGED <<fn, request, calls, jsonBody>>
    /\ UNCHANGED recordVars

(***************************************************************************)
(* The record operations.                                                  *)
(***************************************************************************)
\* a record operation sends its one request
Send(name, a, call) ==
    /\ fn' = name
    /\ args' = a
    /\ inflight' = call
    /\ calls' = Append(calls, call)
    /\ pc' = "AwaitingTransport"
    /\ result' = result

\* a record operation returns without sending
ReturnEarly(name, a, r) ==
    /\ fn' = name
    /\ args' = a
    /\ result' = r
    /\ pc' = "Done"
    /\ UNCHANGED <<inflight, calls>>

\* GetRecords(docId, tableId, options) up to httpGet
GetRecordsCall ==
    /\ pc = "idle"
    /\ UNCHANGED tuiVars
    /\ \E docId \in DocIds, tableId \in TableIds, options \in GetRecordsOptionsSet :
         \E query \in buildRecordsQueryParams(GetRecords_params(options)) :
            Send("GetRecords", Args(docId, tableId, <<>>, options),
                 httpGet(RecordsURL(docId, tableId, query), EmptyText))
    /\ UNCHANGED <<replies>>
    /\ UNCHANGED scimVars

\* AddRecords(docId, tableId, records, options) up to httpPost
AddRecordsCall ==
    /\ pc = "idle"
    /\ UNCHANGED tuiVars
    /\ \E docId \in DocIds, tableId \in TableIds,
          records \in SeqsUpTo(AddFieldMaps, MaxRecords), options \in NoParseOptionsSet :
         LET a == Args(docId, tableId, records, options)
             body == AddRecords_body(records)
         IN  IF body.err
             THEN ReturnEarly("AddRecords", a, MarshalFailed)
             ELSE \E query \in buildRecordsQueryParams(NoParse_params(options)) :
                     Send("AddRecords", a,
                          httpPost(RecordsURL(docId, tableId, query), body.text))
    /\ UNCHANGED <<replies>>
    /\ UNCHANGED scimVars

\* UpdateRecords(docId, tableId, records, options) up to httpPatch
UpdateRecordsCall ==
    /\ pc = "idle"
    /\ UNCHANGED tuiVars
    /\ \E docId \in DocIds, tableId \in TableIds,
          records \in SeqsUpTo(RecordSet, MaxRecords), options \in NoParseOptionsSet :
         LET a == Args(docId, tableId, records, options)
             body == UpdateRecords_body(records)
         IN  IF body.err
             THEN ReturnEarly("UpdateRecords", a, MarshalFailed)
             ELSE \E query \in buildRecordsQueryParams(NoParse_params(options)) :
                     Send("UpdateRecords", a,
                          httpPatch(RecordsURL(docId, tableId, query), body.text))
    /\ UNCHANGED <<replies>>
    /\ UNCHANGED scimVars

\* UpsertRecords(docId, tableId, records, options) up to httpPut
UpsertRecordsCall ==
    /\ pc = "idle"
    /\ UNCHANGED tuiVars
    /\ \E docId \in DocIds, tableId \in TableIds,
          records \in SeqsUpTo(RecordWithRequireSet, MaxRecords),
          options \in UpsertRecordsOptionsSet :
         LET a == Args(docId, tableId, records, options)
             body == UpsertRecords_body(records)
         IN  IF body.err
             THEN ReturnEarly("UpsertRecords", a, MarshalFailed)
             ELSE \E query \in buildRecordsQueryParams(UpsertRecords_params(options)) :
                     Send("UpsertRecords", a,
                          httpPut(RecordsURL(docId, tableId, query), body.text))
    /\ UNCHANGED <<replies>>
    /\ UNCHANGED scimVars

\* DeleteRecords(docId, tableId, recordIds) up to httpPost
DeleteRecordsCall ==
    /\ pc = "idle"
    /\ UNCHANGED tuiVars
    /\ \E docId \in DocIds, tableId \in TableIds,
          recordIds \in SeqsUpTo(RecordIds, MaxRecords) :
         LET a == Args(docId, tableId, recordIds, NilOptions)
             body == DeleteRecords_body(recordIds)
         IN  IF body.err
             THEN ReturnEarly("DeleteRecords", a, MarshalFailed)
             ELSE Send("DeleteRecords", a,
                       httpPost(RecordsURL(docId, tableId, "/delete"), body.text))
    /\ UNCHANGED <<replies>>
    /\ UNCHANGED scimVars

\* buildRecordsQueryParams(params), called on its own
buildRecordsQueryParamsCall ==
    /\ pc = "idle"
    /\ UNCHANGED tuiVars
    /\ \E params \in ParamMaps :
          \E query \in buildRecordsQueryParams(params) :
             ReturnEarly("buildRecordsQueryParams", [params |-> params],
                         [query |-> query])
    /\ UNCHANGED <<replies>>
    /\ UNCHANGED scimVars

RecordFunctions ==
    {"GetRecords", "AddRecords", "UpdateRecords", "UpsertRecords", "DeleteRecords"}

\* httpRequest returns to a record operation, which returns to its caller
RecordTransportReturn ==
    /\ pc = "AwaitingTransport"
    /\ UNCHANGED tuiVars
    /\ fn \in RecordFunctions
    /\ \E reply \in RecordsServerReplies
                      \cup {NetworkFailure(inflight), BodyReadFailure} :
          /\ replies' = Append(replies, reply)
          /\ result' = CASE fn = "GetRecords" ->
                               GetRecords_finish(reply.body, reply.status)
                         [] fn = "AddRecords" ->
                               AddRecords_finish(reply.body, reply.status)
                         [] OTHER -> PassThrough_finish(reply.body, reply.status)
    /\ inflight' = NoCall
    /\ pc' = "Done"
    /\ UNCHANGED <<fn, args, calls>>
    /\ UNCHANGED scimVars

\* the caller has the result; the core keeps nothing of the call
Return ==
    /\ pc = "Done"
    /\ UNCHANGED tuiVars
    /\ pc' = "idle"
    /\ fn' = "none"
    /\ request' = ZeroRequest
    /\ response' = <<>>
    /\ errorCount' = 0
    /\ opIndex' = 0
    /\ inflight' = NoCall
    /\ calls' = <<>>
    /\ replies' = <<>>
    /\ jsonBody' = EmptyText
    /\ args' = NoArgs
    /\ result' = NoResult
    /\ overall' = 0

Next ==
    \/ SCIMBulkCall
    \/ SCIMBulkFromJSONCall
    \/ ValidateEnvelope
    \/ ExecuteOperation
    \/ ScimTransportReturn
    \/ GetRecordsCall
    \/ AddRecordsCall
    \/ UpdateRecordsCall
    \/ UpsertRecordsCall
    \/ DeleteRecordsCall
    \/ buildRecordsQueryParamsCall
    \/ RecordTransportReturn
    \/ Return

Spec == Init /\ [][Next]_vars

(***************************************************************************)
(* The terminal UI as a state machine: the program hands Update one        *)
(* message at a time, keeps the model it returns and starts the command it *)
(* returns.  A panic or tea.Quit ends the program.                         *)
(***************************************************************************)
\* the program takes what Update returned: it keeps the model and starts
\* the command, or it ends (Run drops the final model, and the commands that
\* run end with the process); done is the bag of the commands whose message
\* was just delivered
Program(r, done) ==
    /\ program' = IF r.end = "return" THEN "running" ELSE r.end
    /\ model' = IF r.end = "return" THEN r.model ELSE New
    /\ cmds' = IF r.end # "return" THEN EmptyBag
               ELSE IF r.cmd # NoCmd THEN (cmds (-) done) (+) SetToBag({r.cmd})
               ELSE cmds (-) done
    /\ UNCHANGED coreVars

\* a key is pressed (a key that starts a command is left out when MaxCmds
\* commands are running)
KeyPress(binding) ==
    /\ LET r == Update_key(model, binding)
       IN  /\ r.cmd # NoCmd => BagCardinality(cmds) < MaxCmds
           /\ Program(r, EmptyBag)

\* a running command ends and its message is handed to Update
Deliver(type) ==
    /\ \E cmd \in BagToSet(cmds) :
          \E msg \in MessagesOf(cmd) :
             /\ msg.type = type
             /\ Program(Update_msg(model, msg), SetToBag({cmd}))

TuiNext ==
    \/ program = "running" /\ KeyPress("Quit")
    \/ program = "running" /\ KeyPress("Up")
    \/ program = "running" /\ KeyPress("Down")
    \/ program = "running" /\ KeyPress("Select")
    \/ program = "running" /\ KeyPress("Back")
    \/ program = "running" /\ Deliver("orgsLoadedMsg")
    \/ program = "running" /\ Deliver("workspacesLoadedMsg")
    \/ program = "running" /\ Deliver("docsLoadedMsg")
    \/ program = "running" /\ Deliver("tablesLoadedMsg")
    \/ program = "running" /\ Deliver("tableDataLoadedMsg")
    \/ program = "running" /\ Deliver("docAccessLoadedMsg")
    \/ program = "running" /\ Deliver("docDeletedMsg")
    \/ program = "running" /\ Deliver("csvExportedMsg")
    \/ program = "running" /\ Deliver("successMsg")

TuiSpec == Init /\ [][TuiNext]_vars

(***************************************************************************)
(* Vocabulary of the properties.                                           *)
(***************************************************************************)
BulkRequestMarker == "urn:ietf:params:scim:api:messages:2.0:BulkRequest"

HasMarker(schemas) == \E k \in DOMAIN schemas : schemas[k] = BulkRequestMarker

AllowedMethods == {"POST", "PUT", "PATCH", "DELETE"}

\* the operation is one executeSCIMOperation sends to the server
PassesLocalValidation(op) ==
    /\ op.Method \in AllowedMethods
    /\ op.Path # ""
    /\ op.Data.go # "unsupported"

\* the status strings of the statuses from 400 on
FailedStatuses == { Sprintf_d(n) : n \in 400..599 }

Failed(r) == r.Status \in FailedStatuses

LocallySynthesized(r) == r.Response.kind = "SCIMError"

ErrorPositions == { k \in 1..Len(response) : Failed(response[k]) }

Operations == request.Operations

\* the running call has handed a request to SCIMBulk
ExecutorEntered ==
    \/ fn = "SCIMBulk"
    \/ fn = "SCIMBulkFromJSON" /\ ~json_Unmarshal_SCIMBulkRequest(jsonBody).err

Awaiting == inflight.action # "none"

\* the operations the loop has started so far
Started == Len(response) + (IF Awaiting THEN 1 ELSE 0)

\* method and path of the requests the first n operations call for, in order
ExpectedCalls(n) ==
    LET sent == SelectSeq(SubSeq(Operations, 1, n), PassesLocalValidation)
    IN  [j \in 1..Len(sent) |->
            [action |-> sent[j].Method, request |-> "scim/v2" \o sent[j].Path]]

IssuedCalls ==
    [j \in 1..Len(calls) |-> [action |-> calls[j].action, request |-> calls[j].request]]

(***************************************************************************)
(* C1.  SCIMBulk on a request whose schemas list does not contain the      *)
(* bulk-request marker (an empty list included) returns 400 with no        *)
(* operation entry: the loop is never entered, no operation is validated   *)
(* or executed and Transport is never called, whatever the operations.     *)
(***************************************************************************)
C1_SchemaRejected ==
    (fn = "SCIMBulk" /\ ~HasMarker(request.Schemas)) =>
        /\ pc \in {"ValidatingEnvelope", "Done"}
        /\ response = <<>>
        /\ opIndex = 0
        /\ errorCount = 0
        /\ calls = <<>>
        /\ replies = <<>>
        /\ ~Awaiting
        /\ pc = "Done" => overall = 400

C1_Witness ==
    /\ fn = "SCIMBulk"
    /\ pc = "Done"
    /\ request.Schemas = <<"invalid:schema">>
    /\ Len(Operations) = 2
    /\ \A k \in 1..2 : PassesLocalValidation(Operations[k])
    /\ overall = 400
    /\ response = <<>>

(***************************************************************************)
(* C2.  With a valid envelope and failOnErrors = N > 0 the loop is left    *)
(* right after the response of the N-th failed operation (status >= 400)   *)
(* is appended: that response is the last one, no later operation is       *)
(* started, sent or answered.  K operations that all fail remotely, with   *)
(* N <= K, give exactly N responses and exactly N Transport calls.         *)
(***************************************************************************)
C2_StopsAtThreshold ==
    (ExecutorEntered /\ HasMarker(request.Schemas) /\ request.FailOnErrors > 0) =>
        LET N == request.FailOnErrors
        IN  /\ Cardinality(ErrorPositions) <= N
            /\ Cardinality(ErrorPositions) = N =>
                  /\ pc = "Done"
                  /\ Len(response) \in ErrorPositions
                  /\ ~Awaiting
                  /\ IssuedCalls = ExpectedCalls(Len(response))
            /\ ( /\ pc = "Done"
                 /\ N <= Len(Operations)
                 /\ \A k \in 1..Len(Operations) : PassesLocalValidation(Operations[k])
                 /\ \A j \in 1..Len(replies) : replies[j].status >= 400 )
               => Len(response) = N /\ Len(calls) = N

C2_Witness ==
    /\ fn = "SCIMBulk"
    /\ pc = "Done"
    /\ HasMarker(request.Schemas)
    /\ request.FailOnErrors = 2
    /\ Len(Operations) = 3
    /\ \A k \in 1..3 : PassesLocalValidation(Operations[k])
    /\ Len(replies) = 2
    /\ \A j \in 1..2 : replies[j].status >= 400
    /\ Len(response) = 2
    /\ Len(calls) = 2

(***************************************************************************)
(* C3.  An operation whose method is not POST, PUT, PATCH or DELETE (GET,  *)
(* say) gets the status "400" with a SCIM error of type "invalidSyntax";   *)
(* the step that handles it calls Transport not at all; and the call as a  *)
(* whole still returns 200.                                                *)
(***************************************************************************)
C3_InvalidMethodAnswered ==
    (ExecutorEntered /\ HasMarker(request.Schemas)) =>
        /\ \A k \in 1..Len(response) :
              Operations[k].Method \notin AllowedMethods =>
                  /\ response[k].Status = <<"4", "0", "0">>
                  /\ response[k].Response.kind = "SCIMError"
                  /\ response[k].Response.scimType = "invalidSyntax"
                  /\ response[k].Response.status = <<"4", "0", "0">>
        /\ pc = "Done" => overall = 200

C3_InvalidMethodStep ==
    ( /\ pc = "ExecutingOperations"
      /\ opIndex <= Len(Operations)
      /\ Operations[opIndex].Method \notin AllowedMethods )
    => /\ calls' = calls
       /\ inflight' = inflight
       /\ replies' = replies
       /\ Len(response') = Len(response) + 1

C3_InvalidMethodIsLocal == []C3_InvalidMethodAnswered /\ [][C3_InvalidMethodStep]_vars

C3_Witness ==
    /\ fn = "SCIMBulk"
    /\ pc = "Done"
    /\ Len(Operations) = 1
    /\ Operations[1].Method = "GET"
    /\ Len(response) = 1
    /\ response[1].Status = <<"4", "0", "0">>
    /\ calls = <<>>
    /\ overall = 200

(***************************************************************************)
(* C4.  SCIMBulk returns 200 exactly when the envelope carries the marker: *)
(* with the marker it returns 200 however many operations failed (locally, *)
(* remotely, at the transport) and whether or not the loop stopped early.  *)
(***************************************************************************)
C4_OverallStatus ==
    (fn = "SCIMBulk" /\ pc = "Done") =>
        /\ overall = 200 <=> HasMarker(request.Schemas)
        /\ overall \in {200, 400}

C4_Witness ==
    /\ fn = "SCIMBulk"
    /\ pc = "Done"
    /\ HasMarker(request.Schemas)
    /\ Len(response) = 2
    /\ Len(Operations) = 3
    /\ LocallySynthesized(response[1])
    /\ ~LocallySynthesized(response[2])
    /\ \A k \in 1..2 : Failed(response[k])
    /\ overall = 200

(***************************************************************************)
(* C5.  The operations are processed one after the other in input order:   *)
(* the responses answer a prefix of the request's operations, response i   *)
(* echoing the method and bulkId of operation i, and the requests sent are *)
(* those of the operations started so far, in order, so that the request   *)
(* of operation i+1 is not sent before response i is recorded.             *)
(***************************************************************************)
C5_SequentialInOrder ==
    ExecutorEntered =>
        /\ Len(response) <= Len(Operations)
        /\ \A i \in 1..Len(response) :
              /\ response[i].Method = Operations[i].Method
              /\ response[i].BulkId = Operations[i].BulkId
              /\ LocallySynthesized(response[i]) <=> ~PassesLocalValidation(Operations[i])
        /\ Awaiting =>
              /\ pc = "AwaitingTransport"
              /\ opIndex = Len(response) + 1
              /\ opIndex <= Len(Operations)
              /\ calls[Len(calls)] = inflight
        /\ IssuedCalls = ExpectedCalls(Started)
        /\ Len(replies) = Len(calls) - (IF Awaiting THEN 1 ELSE 0)

C5_Witness ==
    /\ fn = "SCIMBulk"
    /\ pc = "AwaitingTransport"
    /\ Len(Operations) = 3
    /\ Len(response) = 2
    /\ Len(calls) = 2
    /\ ~PassesLocalValidation(Operations[2])
    /\ Operations[1].BulkId # Operations[3].BulkId
    /\ inflight.request = "scim/v2" \o Operations[3].Path

(***************************************************************************)
(* C6.  With failOnErrors = 0 and a valid envelope every operation is      *)
(* executed: there are as many responses as operations, however many of    *)
(* them failed.                                                            *)
(***************************************************************************)
C6_UnlimitedRunsAll ==
    ( /\ ExecutorEntered
      /\ pc = "Done"
      /\ HasMarker(request.Schemas)
      /\ request.FailOnErrors = 0 )
    => Len(response) = Len(Operations)

C6_Witness ==
    /\ fn = "SCIMBulk"
    /\ pc = "Done"
    /\ HasMarker(request.Schemas)
    /\ request.FailOnErrors = 0
    /\ Len(Operations) = 3
    /\ Len(response) = 3
    /\ \A k \in 1..3 : Failed(response[k])

(***************************************************************************)
(* C7.  SCIMBulkFromJSON on a text that does not parse as a bulk request   *)
(* returns 400 with exactly one synthesized operation response of status   *)
(* "400"; SCIMBulk is not invoked and Transport is not called.  On a text  *)
(* that parses, it returns what SCIMBulk returns for the parsed request    *)
(* (given the same answers of the server): 400 and no operation entry when *)
(* the parsed request lacks the marker.                                    *)
(***************************************************************************)
ParseFails == json_Unmarshal_SCIMBulkRequest(jsonBody).err

Parsed == json_Unmarshal_SCIMBulkRequest(jsonBody).request

Returned == [Operations |-> response, status |-> overall]

C7_FromJSON ==
    /\ (fn = "SCIMBulkFromJSON" /\ ParseFails) =>
          /\ pc = "Done"
          /\ overall = 400
          /\ Len(response) = 1
          /\ response[1].Status = <<"4", "0", "0">>
          /\ LocallySynthesized(response[1])
          /\ opIndex = 0
          /\ errorCount = 0
          /\ calls = <<>>
          /\ replies = <<>>
          /\ ~Awaiting
    /\ (fn = "SCIMBulkFromJSON" /\ ~ParseFails) =>
          /\ request = Parsed
          /\ pc = "Done" => Returned = SCIMBulk(Parsed, replies)
          /\ (pc = "Done" /\ ~HasMarker(Parsed.Schemas)) =>
                overall = 400 /\ response = <<>>
    /\ (fn = "SCIMBulk" /\ pc = "Done") => Returned = SCIMBulk(request, replies)

C7_Witness ==
    /\ fn = "SCIMBulkFromJSON"
    /\ jsonBody = RawText("{invalid json}")
    /\ pc = "Done"
    /\ overall = 400
    /\ Len(response) = 1
    /\ calls = <<>>

\* a text that parses, handed on to SCIMBulk, with an operation sent
C7_WitnessParsed ==
    /\ fn = "SCIMBulkFromJSON"
    /\ ~ParseFails
    /\ pc = "Done"
    /\ overall = 200
    /\ Len(response) = 2
    /\ Len(calls) = 1

(***************************************************************************)
(* C8.  The core neither retries nor sends two requests at once: at most   *)
(* one request is outstanding; a call of GetRecords, AddRecords,           *)
(* UpdateRecords, UpsertRecords or DeleteRecords sends at most one         *)
(* request; SCIMBulk sends exactly one request, with the operation's       *)
(* method and the path "scim/v2"+path, for each operation it started that  *)
(* passes the local validation and none for the others, so that the        *)
(* requests sent are as many as the responses not synthesized locally.     *)
(***************************************************************************)
C8_OneCallPerOperation ==
    /\ Len(calls) - Len(replies) = (IF Awaiting THEN 1 ELSE 0)
    /\ fn \in RecordFunctions => Len(calls) <= 1
    /\ ExecutorEntered =>
          /\ IssuedCalls = ExpectedCalls(Started)
          /\ ~Awaiting =>
                Len(calls) =
                    Cardinality({k \in 1..Len(response) : ~LocallySynthesized(response[k])})
    /\ (fn = "SCIMBulkFromJSON" /\ ParseFails) => calls = <<>>

C8_Witness ==
    /\ fn = "SCIMBulk"
    /\ pc = "Done"
    /\ Len(Operations) = 3
    /\ Len(response) = 3
    /\ Len(calls) = 2
    /\ LocallySynthesized(response[2])
    /\ replies[1].status = -10
    /\ calls[2] = [action |-> "DELETE", request |-> "scim/v2/Users/user2",
                   data |-> EmptyText]

(***************************************************************************)
(* C9.  GetRecords decodes the body into records only when Transport       *)
(* returned exactly 200.  For every other status (another 2xx, a 4xx or    *)
(* 5xx, the negative status of a transport failure) it returns no record   *)
(* at all, and in every case the status is the one Transport returned.     *)
(***************************************************************************)
C9_DecodeOn200Only ==
    (fn = "GetRecords" /\ pc = "Done") =>
        /\ Len(replies) = 1
        /\ result.status = replies[1].status
        /\ replies[1].status # 200 => Len(result.Records) = 0
        /\ (replies[1].status = 200 /\ replies[1].body = JsonText(RecordsJSON)) =>
              /\ Len(result.Records) = 2
              /\ result.Records[1].Id = 1
              /\ result.Records[1].Fields.m["name"] = JString("Alice")
              /\ result.Records[2].Id = 2

C9_Witness ==
    /\ fn = "GetRecords"
    /\ pc = "Done"
    /\ replies[1].status = 201
    /\ replies[1].body = JsonText(RecordsJSON)
    /\ result.status = 201
    /\ Len(result.Records) = 0

(***************************************************************************)
(* C10.  In each of the five record operations a failure of json.Marshal   *)
(* on the request side gives the status -1 with an empty result, and       *)
(* Transport is not called; a fetch whose filter cannot be serialized is   *)
(* one of these cases.                                                     *)
(***************************************************************************)
\* the arguments of the running record operation hold a value that
\* json.Marshal cannot encode
MarshalFails ==
    CASE fn = "GetRecords" ->
            ~args.options.nil /\ args.options.Filter.go = "unsupported"
      [] fn = "AddRecords" ->
            \E k \in 1..Len(args.records) : args.records[k].go = "unsupported"
      [] fn = "UpdateRecords" ->
            \E k \in 1..Len(args.records) : args.records[k].Fields.go = "unsupported"
      [] fn = "UpsertRecords" ->
            \E k \in 1..Len(args.records) :
                \/ args.records[k].Require.go = "unsupported"
                \/ args.records[k].Fields.go = "unsupported"
      [] OTHER -> FALSE

C10_MarshalFailure ==
    (fn \in RecordFunctions /\ MarshalFails) =>
        /\ pc = "Done"
        /\ result.status = -1
        /\ Len(result.Records) = 0
        /\ result.Body = EmptyText
        /\ calls = <<>>
        /\ ~Awaiting

\* the same for the four operations that write (DeleteRecords, whose list
\* of integers always encodes, never fails)
C10_WriteOperations ==
    (fn \in RecordFunctions \ {"GetRecords"} /\ MarshalFails) =>
        /\ pc = "Done"
        /\ result.status = -1
        /\ Len(result.Records) = 0
        /\ result.Body = EmptyText
        /\ calls = <<>>
        /\ ~Awaiting

(***************************************************************************)
(* C11.  Transport does not raise when the request cannot be sent: it      *)
(* returns -10 with a message as body.  At the interface of the record     *)
(* operations the three kinds of failure are told apart by the status: -1  *)
(* is returned only after a local marshal failure, with no request sent;   *)
(* -10 only when Transport could not send the request; every other status  *)
(* is the HTTP status the server sent.                                     *)
(***************************************************************************)
\* the statuses an HTTP response can carry
HTTPStatuses == 0..999

C11_FailureKinds ==
    /\ \A k \in 1..Len(replies) :
          /\ replies[k].status \in HTTPStatuses \cup {-10}
          /\ replies[k].status = -10 =>
                /\ replies[k].body.kind = "raw"
                /\ Len(replies[k].body.s) > 0
    /\ (fn \in RecordFunctions /\ pc = "AwaitingTransport") => ENABLED RecordTransportReturn
    /\ (fn \in RecordFunctions /\ pc = "Done") =>
          /\ result.status = -1 <=> calls = <<>>
          /\ result.status = -1 => MarshalFails /\ replies = <<>>
          /\ result.status # -1 =>
                /\ Len(calls) = 1
                /\ Len(replies) = 1
                /\ result.status = replies[1].status
          /\ result.status = -10 => replies[1] = NetworkFailure(calls[1])
          /\ result.status \notin {-1, -10} => result.status \in HTTPStatuses

C11_Witness ==
    /\ fn = "UpdateRecords"
    /\ pc = "Done"
    /\ Len(calls) = 1
    /\ replies = <<NetworkFailure(calls[1])>>
    /\ result.status = -10
    /\ result.Body.kind = "raw"

(***************************************************************************)
(* C12.  UpdateRecords, UpsertRecords and DeleteRecords return exactly the *)
(* body and the status their one Transport call produced, whatever the     *)
(* status: a remote failure is handed on unchanged, and the request is     *)
(* sent once.                                                              *)
(***************************************************************************)
PassThroughFunctions == {"UpdateRecords", "UpsertRecords", "DeleteRecords"}

C12_PassThrough ==
    (fn \in PassThroughFunctions /\ pc = "Done" /\ calls # <<>>) =>
        /\ Len(calls) = 1
        /\ Len(replies) = 1
        /\ result.Body = replies[1].body
        /\ result.status = replies[1].status
        /\ result.Records = <<>>

C12_Witness ==
    /\ fn = "UpsertRecords"
    /\ pc = "Done"
    /\ Len(calls) = 1
    /\ replies = <<[body |-> JsonText(RecordsJSON), status |-> 404]>>
    /\ result.Body = JsonText(RecordsJSON)
    /\ result.status = 404

(***************************************************************************)
(* Vocabulary of the query strings.                                        *)
(***************************************************************************)
\* the orders in which the members of a set can be written
RECURSIVE Orderings(_)
Orderings(S) ==
    IF S = {} THEN {<<>>}
    ELSE UNION { { <<x>> \o p : p \in Orderings(S \ {x}) } : x \in S }

RECURSIVE AmpersandJoined(_)
AmpersandJoined(p) ==
    IF Len(p) = 0 THEN ""
    ELSE IF Len(p) = 1 THEN p[1]
    ELSE p[1] \o "&" \o AmpersandJoined(Tail(p))

\* the query strings that hold exactly these key=value pairs, "" for none
QueriesOf(pairs) ==
    IF pairs = {} THEN {""}
    ELSE { "?" \o AmpersandJoined(p) : p \in Orderings(pairs) }

\* the strings that begin with "?" and go on with some pairs of the set
BeginningWithQuestionMark(pairs) ==
    UNION { QueriesOf(some) : some \in (SUBSET pairs) \ {{}} } \cup {"?"}

BuilderReturned == fn = "buildRecordsQueryParams" /\ pc = "Done"

(***************************************************************************)
(* C13.  buildRecordsQueryParams returns "" for a mapping that is empty or *)
(* whose values are all empty, and a string that begins with "?" for a     *)
(* mapping with at least one value that is not empty.                      *)
(***************************************************************************)
C13_EmptyOrQuestionMark ==
    BuilderReturned =>
        LET params == args.params
            all == { k \o "=" \o params[k] : k \in DOMAIN params }
        IN  IF \A k \in DOMAIN params : params[k] = ""
            THEN result.query = ""
            ELSE /\ result.query # ""
                 /\ result.query \in BeginningWithQuestionMark(all)

C13_Witness ==
    /\ BuilderReturned
    /\ args.params = [limit |-> "", sort |-> ""]
    /\ result.query = ""

(***************************************************************************)
(* C14.  For a mapping with a value that is not empty the result is "?"    *)
(* followed by one key=value pair for each entry whose value is not empty, *)
(* joined by "&" in some order; an entry with an empty value leaves no     *)
(* trace.  {"limit":"10"} gives "?limit=10" and {"limit":"","sort":"name"} *)
(* gives "?sort=name".                                                     *)
(***************************************************************************)
C14_OnePairPerValue ==
    BuilderReturned =>
        LET params == args.params
            pairs == { k \o "=" \o params[k] :
                         k \in {x \in DOMAIN params : params[x] # ""} }
        IN  /\ pairs # {} => result.query \in QueriesOf(pairs)
            /\ params = [limit |-> "10"] => result.query = "?limit=10"
            /\ params = [limit |-> "", sort |-> "name"] => result.query = "?sort=name"

C14_Witness ==
    /\ BuilderReturned
    /\ args.params = [limit |-> "", sort |-> "name", hidden |-> "true"]
    /\ result.query = "?hidden=true&sort=name"

(***************************************************************************)
(* C15.  The request of UpsertRecords carries onmany=<value> exactly when  *)
(* OnMany is not empty and noadd=true, noupdate=true,                      *)
(* allow_empty_require=true, noparse=true exactly when the option of that  *)
(* name is set, and nothing else.  With onMany "all", noAdd, noUpdate and  *)
(* allowEmptyRequire the query holds those four flags; with nil options or *)
(* options that are all default the URL has no query string.               *)
(***************************************************************************)
\* the flags the options of an upsert call for
UpsertFlags(options) ==
    IF options.nil THEN {}
    ELSE (IF options.OnMany # "" THEN {"onmany=" \o options.OnMany} ELSE {})
         \cup (IF options.NoAdd THEN {"noadd=true"} ELSE {})
         \cup (IF options.NoUpdate THEN {"noupdate=true"} ELSE {})
         \cup (IF options.AllowEmptyRequire THEN {"allow_empty_require=true"} ELSE {})
         \cup (IF options.NoParse THEN {"noparse=true"} ELSE {})

DefaultUpsertOptions ==
    [nil |-> FALSE, OnMany |-> "", NoAdd |-> FALSE, NoUpdate |-> FALSE,
     AllowEmptyRequire |-> FALSE, NoParse |-> FALSE]

C15_UpsertFlags ==
    (fn = "UpsertRecords" /\ Awaiting) =>
        /\ calls = <<inflight>>
        /\ calls[1].action = "PUT"
        /\ calls[1].request \in
              { "docs/" \o args.docId \o "/tables/" \o args.tableId \o "/records" \o q :
                  q \in QueriesOf(UpsertFlags(args.options)) }
        /\ args.options \in {NilOptions, DefaultUpsertOptions} =>
              calls[1].request =
                  "docs/" \o args.docId \o "/tables/" \o args.tableId \o "/records"
        /\ args.options = [nil |-> FALSE, OnMany |-> "all", NoAdd |-> TRUE,
                           NoUpdate |-> TRUE, AllowEmptyRequire |-> TRUE,
                           NoParse |-> FALSE] =>
              calls[1].request \in
                  { "docs/doc123/tables/Table1/records" \o q :
                      q \in QueriesOf({"onmany=all", "noadd=true", "noupdate=true",
                                        "allow_empty_require=true"}) }

C15_Witness ==
    /\ fn = "UpsertRecords"
    /\ Awaiting
    /\ args.options = [nil |-> FALSE, OnMany |-> "all", NoAdd |-> TRUE,
                       NoUpdate |-> TRUE, AllowEmptyRequire |-> TRUE,
                       NoParse |-> FALSE]
    /\ calls[1].request = "docs/doc123/tables/Table1/records"
            \o "?noadd=true&onmany=all&allow_empty_require=true&noupdate=true"

(***************************************************************************)
(* C16.  The GET of GetRecords carries limit=<n> exactly when Limit > 0,   *)
(* hidden=true exactly when Hidden, sort=<value> exactly when Sort is not  *)
(* empty and filter=<JSON of the mapping> exactly when a filter mapping is *)
(* supplied; with nil options the path ends in "records" and has no query. *)
(***************************************************************************)
\* the parameters other than the filter that the options of a fetch call for
FetchParameters(options) ==
    (IF options.Sort # "" THEN {"sort=" \o options.Sort} ELSE {})
    \cup (IF options.Limit > 0 THEN {"limit=" \o strconv_Itoa(options.Limit)} ELSE {})
    \cup (IF options.Hidden THEN {"hidden=true"} ELSE {})

\* the filter parameter of a supplied mapping
FilterParameter(filter) ==
    IF filter = NameFilter THEN "filter={\"name\":[\"Alice\"]}" ELSE "filter=<JSON>"

FetchAwaiting == fn = "GetRecords" /\ Awaiting

FetchRequestIs(pairs) ==
    /\ calls = <<inflight>>
    /\ calls[1].action = "GET"
    /\ calls[1].data = EmptyText
    /\ calls[1].request \in
          { "docs/" \o args.docId \o "/tables/" \o args.tableId \o "/records" \o q :
              q \in QueriesOf(pairs) }

C16_FetchQuery ==
    FetchAwaiting =>
        IF args.options.nil
        THEN /\ FetchRequestIs({})
             /\ calls[1].request = "docs/doc123/tables/Table1/records"
        ELSE FetchRequestIs(
                 FetchParameters(args.options)
                 \cup (IF args.options.Filter.go # "nil"
                       THEN {FilterParameter(args.options.Filter)} ELSE {}))

\* the same for the calls whose filter, if there is one, can be serialized
C16_SerializableFilter ==
    (FetchAwaiting /\ ~MarshalFails) => C16_FetchQuery

C16_Witness ==
    /\ FetchAwaiting
    /\ args.options = [nil |-> FALSE, Filter |-> NameFilter, Sort |-> "",
                       Limit |-> 10, Hidden |-> TRUE]
    /\ calls[1].request = "docs/doc123/tables/Table1/records"
            \o "?limit=10&filter={\"name\":[\"Alice\"]}&hidden=true"

(***************************************************************************)
(* C17.  AddRecords POSTs a body whose records list has one {fields: ...}  *)
(* entry for each field map of the caller, in input order and without id.  *)
(* On status 200 it returns the identifiers the server assigned, as many   *)
(* and in the order of the response, and no field data; on any other       *)
(* status the list of ids it returns is empty.                             *)
(***************************************************************************)
\* the entries of a JSON list, none for null
EntriesOf(v) == IF v.t = "array" THEN v.a ELSE <<>>

C17_AddRecords ==
    (fn = "AddRecords" /\ calls # <<>>) =>
        /\ calls[1].action = "POST"
        /\ calls[1].data.kind = "json"
        /\ calls[1].data.v.t = "object"
        /\ calls[1].data.v.keys = {"records"}
        /\ LET sent == EntriesOf(calls[1].data.v.m["records"])
           IN  /\ Len(sent) = Len(args.records)
               /\ \A k \in 1..Len(sent) :
                     /\ sent[k].t = "object"
                     /\ sent[k].keys = {"fields"}
                     /\ sent[k].m["fields"] = args.records[k].v
        /\ pc = "Done" =>
              /\ replies[1].status # 200 => result.Records = <<>>
              /\ \A k \in 1..Len(result.Records) : DOMAIN result.Records[k] = {"Id"}
              /\ replies[1] = [body |-> JsonText(RecordsJSON), status |-> 200] =>
                    result.Records = <<[Id |-> 1], [Id |-> 2]>>
              /\ result.status = replies[1].status

C17_Witness ==
    /\ fn = "AddRecords"
    /\ pc = "Done"
    /\ args.records = <<AgeFields, NameFields>>
    /\ calls[1].data.v.m["records"].a[1].m["fields"] = AgeFields.v
    /\ replies = <<[body |-> JsonText(RecordsJSON), status |-> 200]>>
    /\ result.Records = <<[Id |-> 1], [Id |-> 2]>>

(***************************************************************************)
(* C18.  DeleteRecords POSTs the id list of the caller as it is, as a bare *)
(* JSON array, to docs/{doc}/tables/{table}/records/delete: no id is       *)
(* dropped, moved or merged with an equal one.  The request depends on the *)
(* arguments alone and the result on the response alone, and when the call *)
(* has returned nothing of it is kept, so that two calls with the same     *)
(* arguments send the same request and each returns its own response.      *)
(***************************************************************************)
C18_DeleteRequest ==
    (fn = "DeleteRecords" /\ pc # "idle") =>
        /\ Len(calls) = 1
        /\ calls[1].action = "POST"
        /\ calls[1].request =
              "docs/" \o args.docId \o "/tables/" \o args.tableId \o "/records/delete"
        /\ calls[1].data.kind = "json"
        /\ calls[1].data.v.t = "array"
        /\ Len(calls[1].data.v.a) = Len(args.records)
        /\ \A k \in 1..Len(args.records) :
              calls[1].data.v.a[k] = [t |-> "number", n |-> args.records[k]]
        /\ args.records = <<1, 2>> => JsonString(calls[1].data.v) = "[1,2]"
        /\ args.records = <<2, 2>> => JsonString(calls[1].data.v) = "[2,2]"
        /\ pc = "Done" =>
              /\ Len(replies) = 1
              /\ result.Body = replies[1].body
              /\ result.status = replies[1].status

C18_DeleteForgets ==
    (fn = "DeleteRecords" /\ pc = "Done") =>
        /\ pc' = "idle"
        /\ fn' = "none"
        /\ calls' = <<>>
        /\ replies' = <<>>
        /\ inflight' = NoCall
        /\ args' = NoArgs
        /\ result' = NoResult

ReplyOf(k) ==
    replies[Cardinality({j \in 1..k : ~LocallySynthesized(response[j])})]

HasId(body) ==
    /\ body.kind = "json"
    /\ body.v.t = "object"
    /\ "id" \in body.v.keys

C19_Location ==
    (ExecutorEntered /\ HasMarker(request.Schemas)) =>
        \A k \in 1..Len(response) :
            LET op == Operations[k]
                deserved ==
                    /\ op.Method \in {"POST", "PUT"}
                    /\ PassesLocalValidation(op)
                    /\ ReplyOf(k).status \in 200..299
                    /\ HasId(ReplyOf(k).body)
            IN  /\ response[k].Location # "" <=> deserved
                /\ deserved =>
                      response[k].Location =
                          "https://grist.example/api/scim/v2" \o op.Path \o "/"
                              \o ReplyOf(k).body.v.m["id"].s

C19_Witness ==
    /\ fn = "SCIMBulk"
    /\ pc = "Done"
    /\ Len(Operations) = 1
    /\ Operations[1].Method = "PUT"
    /\ Operations[1].Path = "/Users/user1"
    /\ replies = <<[body |-> JsonText(UserJSON), status |-> 201]>>
    /\ response[1].Location = "https://grist.example/api/scim/v2/Users/user1/user1"

C19_WitnessNoLocation ==
    /\ fn = "SCIMBulk"
    /\ pc = "Done"
    /\ Len(Operations) = 1
    /\ Operations[1].Method = "PATCH"
    /\ replies = <<[body |-> JsonText(UserJSON), status |-> 201]>>
    /\ response[1].Location = ""

(***************************************************************************)
(* C20.  The error counter of SCIMBulk goes up by one for each executed    *)
(* operation whose status is 400 or more and for no other.  The 400s       *)
(* answered locally (method, path, payload) count like the failures of the *)
(* server, so a batch with failOnErrors = N stops after N errors of any    *)
(* mix of the two.                                                         *)
(***************************************************************************)
C20_ErrorCount ==
    (ExecutorEntered /\ HasMarker(request.Schemas)) =>
        /\ errorCount = Cardinality(ErrorPositions)
        /\ \A k \in 1..Len(response) :
              LocallySynthesized(response[k]) => k \in ErrorPositions
        /\ ( /\ pc = "Done"
             /\ request.FailOnErrors > 0
             /\ Len(response) < Len(Operations) )
           => /\ errorCount = request.FailOnErrors
              /\ Len(response) \in ErrorPositions

C20_ErrorCountStep ==
    ( /\ pc \in {"ExecutingOperations", "AwaitingTransport"}
      /\ Len(response') = Len(response) + 1 ) =>
        errorCount' = errorCount
                      + (IF Failed(response'[Len(response')]) THEN 1 ELSE 0)

C20_ErrorCounter == []C20_ErrorCount /\ [][C20_ErrorCountStep]_vars

C20_Witness ==
    /\ fn = "SCIMBulk"
    /\ pc = "Done"
    /\ request.FailOnErrors = 2
    /\ Len(Operations) = 3
    /\ Len(response) = 2
    /\ PassesLocalValidation(Operations[3])
    /\ LocallySynthesized(response[1])
    /\ ~LocallySynthesized(response[2])
    /\ replies = <<[body |-> JsonText(UserJSON), status |-> 400]>>
    /\ errorCount = 2

(***************************************************************************)
(* C21.  An operation with an allowed method and an empty path is answered *)
(* locally with the status "400" and a SCIM error of type "invalidSyntax", *)
(* and Transport is not called for it.  The method is checked before the   *)
(* path: an operation with a method that is not allowed and an empty path  *)
(* is reported as an invalid method.                                       *)
(***************************************************************************)
C21_EmptyPathAnswered ==
    (ExecutorEntered /\ HasMarker(request.Schemas)) =>
        \A k \in 1..Len(response) :
            Operations[k].Path = "" =>
                /\ response[k].Status = <<"4", "0", "0">>
                /\ response[k].Response.kind = "SCIMError"
                /\ response[k].Response.scimType = "invalidSyntax"
                /\ response[k].Response.status = <<"4", "0", "0">>
                /\ response[k].Response.detail =
                      IF Operations[k].Method \in AllowedMethods
                      THEN "Path is required"
                      ELSE "Invalid method: " \o Operations[k].Method

C21_EmptyPathStep ==
    ( /\ pc = "ExecutingOperations"
      /\ opIndex <= Len(Operations)
      /\ Operations[opIndex].Path = "" )
    => /\ calls' = calls
       /\ inflight' = inflight
       /\ replies' = replies
       /\ Len(response') = Len(response) + 1

C21_EmptyPathIsLocal == []C21_EmptyPathAnswered /\ [][C21_EmptyPathStep]_vars

C21_Witness ==
    /\ fn = "SCIMBulk"
    /\ pc = "Done"
    /\ Len(Operations) = 1
    /\ Operations[1].Method = "POST"
    /\ Operations[1].Path = ""
    /\ Len(response) = 1
    /\ response[1].Status = <<"4", "0", "0">>
    /\ response[1].Response.detail = "Path is required"
    /\ calls = <<>>

C21_WitnessInvalidMethod ==
    /\ fn = "SCIMBulk"
    /\ pc = "Done"
    /\ Len(Operations) = 1
    /\ Operations[1].Method = "GET"
    /\ Operations[1].Path = ""
    /\ Len(response) = 1
    /\ response[1].Response.detail = "Invalid method: GET"
    /\ calls = <<>>

(***************************************************************************)
(* C23.  An operation that passes the checks of method and path and whose  *)
(* payload cannot be serialized to JSON is answered locally with the       *)
(* status "400" and the detail "Invalid request data", and Transport is    *)
(* not called for it.  An operation without payload is not serialized and  *)
(* is sent with an empty body.                                             *)
(***************************************************************************)
BadPayload(op) ==
    /\ op.Method \in AllowedMethods
    /\ op.Path # ""
    /\ op.Data.go = "unsupported"

C23_BadPayloadAnswered ==
    (ExecutorEntered /\ HasMarker(request.Schemas)) =>
        /\ \A k \in 1..Len(response) :
              BadPayload(Operations[k]) =>
                  /\ response[k].Status = <<"4", "0", "0">>
                  /\ response[k].Response.kind = "SCIMError"
                  /\ response[k].Response.detail = "Invalid request data"
                  /\ response[k].Response.scimType = "invalidSyntax"
        /\ Awaiting =>
              /\ ~BadPayload(Operations[opIndex])
              /\ inflight.data =
                    IF Operations[opIndex].Data.go = "nil"
                    THEN [kind |-> "empty"]
                    ELSE [kind |-> "json", v |-> Operations[opIndex].Data.v]

C23_BadPayloadStep ==
    ( /\ pc = "ExecutingOperations"
      /\ opIndex <= Len(Operations)
      /\ BadPayload(Operations[opIndex]) )
    => /\ calls' = calls
       /\ inflight' = inflight
       /\ replies' = replies
       /\ Len(response') = Len(response) + 1

C23_BadPayloadIsLocal == []C23_BadPayloadAnswered /\ [][C23_BadPayloadStep]_vars

C23_Witness ==
    /\ fn = "SCIMBulk"
    /\ pc = "Done"
    /\ Len(Operations) = 1
    /\ BadPayload(Operations[1])
    /\ Len(response) = 1
    /\ response[1].Response.detail = "Invalid request data"
    /\ calls = <<>>

C23_WitnessNoPayload ==
    /\ fn = "SCIMBulk"
    /\ Awaiting
    /\ Len(Operations) = 1
    /\ Operations[1].Method = "PATCH"
    /\ Operations[1].Data.go = "nil"
    /\ inflight.data = [kind |-> "empty"]

(***************************************************************************)
(* C24.  For every operation that was sent the status of its response is   *)
(* the decimal string of the status Transport returned, and the response   *)
(* field is the decoded JSON value when the body parses as JSON, the body  *)
(* as a string when it is not empty and does not parse, and absent when    *)
(* the body is empty.                                                      *)
(***************************************************************************)
DecimalDigit ==
    [c \in {"0", "1", "2", "3", "4", "5", "6", "7", "8", "9"} |->
        CASE c = "0" -> 0 [] c = "1" -> 1 [] c = "2" -> 2 [] c = "3" -> 3
          [] c = "4" -> 4 [] c = "5" -> 5 [] c = "6" -> 6 [] c = "7" -> 7
          [] c = "8" -> 8 [] c = "9" -> 9]

RECURSIVE NaturalRead(_)
\* the number a sequence of decimal digits writes
NaturalRead(s) ==
    IF Len(s) = 0 THEN 0
    ELSE 10 * NaturalRead(SubSeq(s, 1, Len(s) - 1)) + DecimalDigit[s[Len(s)]]

\* s is the decimal string of n: a minus sign for a negative number, then
\* its digits without leading zero
IsDecimalOf(s, n) ==
    LET digits == IF n < 0 THEN Tail(s) ELSE s
    IN  /\ Len(s) > 0
        /\ n < 0 <=> s[1] = "-"
        /\ Len(digits) > 0
        /\ \A j \in 1..Len(digits) : digits[j] \in DOMAIN DecimalDigit
        /\ Len(digits) > 1 => digits[1] # "0"
        /\ NaturalRead(digits) = (IF n < 0 THEN 0 - n ELSE n)

C24_StatusAndResponse ==
    (ExecutorEntered /\ HasMarker(request.Schemas)) =>
        \A k \in 1..Len(response) :
            PassesLocalValidation(Operations[k]) =>
                LET reply == ReplyOf(k)
                IN  /\ IsDecimalOf(response[k].Status, reply.status)
                    /\ reply.body.kind = "json" =>
                          response[k].Response = [kind |-> "decoded", v |-> reply.body.v]
                    /\ reply.body.kind = "raw" =>
                          response[k].Response = [kind |-> "string", text |-> reply.body]
                    /\ reply.body.kind = "empty" =>
                          response[k].Response = [kind |-> "nil"]

C24_Witness ==
    /\ fn = "SCIMBulk"
    /\ pc = "Done"
    /\ Len(Operations) = 3
    /\ Len(response) = 3
    /\ Len(replies) = 3
    /\ replies[1].status = 204
    /\ response[1].Status = <<"2", "0", "4">>
    /\ response[1].Response = [kind |-> "nil"]
    /\ replies[2].status = -10
    /\ response[2].Status = <<"-", "1", "0">>
    /\ response[2].Response.kind = "string"
    /\ replies[3].status = 400
    /\ response[3].Response = [kind |-> "decoded", v |-> UserJSON]

(***************************************************************************)
(* C25.  When Transport fails for an operation of SCIMBulk (status -10)    *)
(* the response of the operation has the status "-10" and the error        *)
(* message as a string; the error counter does not count it, as -10 is not *)
(* 400 or more, and it never stops the loop: when the server cannot be     *)
(* reached every operation is attempted, whatever failOnErrors is.         *)
(***************************************************************************)
C25_TransportFailureNotCounted ==
    (ExecutorEntered /\ HasMarker(request.Schemas)) =>
        /\ \A k \in 1..Len(response) :
              (PassesLocalValidation(Operations[k]) /\ ReplyOf(k).status = -10) =>
                  /\ response[k].Status = <<"-", "1", "0">>
                  /\ response[k].Response = [kind |-> "string", text |-> ReplyOf(k).body]
                  /\ ReplyOf(k).body.kind = "raw"
                  /\ k \notin ErrorPositions
        /\ errorCount <= Cardinality({k \in 1..Len(response) :
                               \/ ~PassesLocalValidation(Operations[k])
                               \/ ReplyOf(k).status # -10})
        /\ ( /\ pc = "Done"
             /\ \A k \in 1..Len(Operations) : PassesLocalValidation(Operations[k])
             /\ \A j \in 1..Len(replies) : replies[j].status = -10 )
           => /\ Len(response) = Len(Operations)
              /\ Len(calls) = Len(Operations)
              /\ errorCount = 0

C25_Witness ==
    /\ fn = "SCIMBulk"
    /\ pc = "Done"
    /\ HasMarker(request.Schemas)
    /\ request.FailOnErrors = 1
    /\ Len(Operations) = 3
    /\ \A k \in 1..3 : PassesLocalValidation(Operations[k])
    /\ Len(replies) = 3
    /\ \A j \in 1..3 : replies[j].status = -10
    /\ Len(response) = 3
    /\ response[3].Status = <<"-", "1", "0">>
    /\ errorCount = 0

(***************************************************************************)
(* C26.  SCIMBulk never records more responses than the request declares   *)
(* operations.  It returns fewer only when failOnErrors is positive, the   *)
(* number of responses whose status is 400 or more equals failOnErrors and *)
(* the last response is one of them.  A negative failOnErrors is the same  *)
(* as 0: every operation gets its response.                                *)
(***************************************************************************)
C26_ResponseCount ==
    (ExecutorEntered /\ HasMarker(request.Schemas)) =>
        /\ Len(response) <= Len(Operations)
        /\ (pc = "Done" /\ Len(response) < Len(Operations)) =>
              /\ request.FailOnErrors > 0
              /\ Cardinality(ErrorPositions) = request.FailOnErrors
              /\ Len(response) \in ErrorPositions
        /\ (pc = "Done" /\ request.FailOnErrors <= 0) =>
              Len(response) = Len(Operations)

\* stopped early: the second of three operations is the first failure
C26_Witness ==
    /\ fn = "SCIMBulk"
    /\ pc = "Done"
    /\ HasMarker(request.Schemas)
    /\ request.FailOnErrors = 1
    /\ Len(Operations) = 3
    /\ Len(response) = 2
    /\ ErrorPositions = {2}

\* a negative threshold: three failures, three responses
C26_WitnessNegative ==
    /\ fn = "SCIMBulk"
    /\ pc = "Done"
    /\ HasMarker(request.Schemas)
    /\ request.FailOnErrors = -1
    /\ Len(Operations) = 3
    /\ Len(response) = 3
    /\ ErrorPositions = {1, 2, 3}

(***************************************************************************)
(* Vocabulary of the properties of the terminal UI.                        *)
(***************************************************************************)
Running == program = "running"

\* the view Back is said to lead to
ParentView(view) ==
    CASE view = ViewWorkspaces -> ViewOrgs
      [] view = ViewDocs -> ViewWorkspaces
      [] view = ViewDocActions -> ViewDocs
      [] view \in {ViewTables, ViewDocAccess, ViewConfirmDelete} -> ViewDocActions
      [] view = ViewTableActions -> ViewTables
      [] view = ViewTableData -> ViewTableActions

RECURSIVE BackPresses(_)
\* the number of Back presses, one after the other, that end the program
\* when it holds the model m (8 when one of them panics)
BackPresses(m) ==
    LET r == Update_key(m, "Back")
    IN  CASE r.end = "quit" -> 1
          [] r.end = "return" -> 1 + BackPresses(r.model)
          [] OTHER -> 8

(***************************************************************************)
(* C22.  Back moves from each view to its parent view (Workspaces to       *)
(* Organizations, Documents to Workspaces, Document Actions to Documents,  *)
(* Tables, Document Access and Confirm Delete to Document Actions, Table   *)
(* Actions to Tables, Table Data to Table Actions), Back on Organizations  *)
(* quits and Quit quits from every view; from every reachable view at most *)
(* 7 Back presses in a row end the program.                                *)
(***************************************************************************)
C22_AtMostSeven == Running => BackPresses(model) <= 7

C22_BackStep ==
    /\ (Running /\ KeyPress("Back")) => IF model.view = ViewOrgs
            THEN program' = "quit"
            ELSE /\ program' = "running"
                 /\ model'.view = ParentView(model.view)
    /\ (Running /\ KeyPress("Quit")) => program' = "quit"

C22_BackAndQuit == []C22_AtMostSeven /\ [][C22_BackStep]_vars

\* the deepest view: seven presses are needed
C22_Witness ==
    /\ Running
    /\ model.view = ViewTableData
    /\ BackPresses(model) = 7

\* the depth of a view
Depth(view) ==
    CASE view = ViewOrgs -> 0
      [] view = ViewWorkspaces -> 1
      [] view = ViewDocs -> 2
      [] view \in {ViewDocActions, ViewTables, ViewDocAccess, ViewConfirmDelete} -> 3
      [] view \in {ViewTableActions, ViewTableData} -> 4

(***************************************************************************)
(* C27.  In every reachable state of the terminal UI the length of the     *)
(* breadcrumb is the depth of the current view (Organizations 0,           *)
(* Workspaces 1, Documents 2, Document Actions, Tables, Document Access    *)
(* and Confirm Delete 3, Table Actions and Table Data 4), and no           *)
(* re-slicing of the breadcrumb, by Back or on the document-deleted        *)
(* message, is out of range.                                               *)
(***************************************************************************)
C27_BreadcrumbDepth ==
    /\ program # SliceBoundsOutOfRange
    /\ Running => model.breadcrumb.len = Depth(model.view)

\* the part of C27 that holds: as long as the program runs, the length is
\* the depth
C27_LengthIsDepth == Running => model.breadcrumb.len = Depth(model.view)

\* Select is acted upon
SelectActedUpon == Running /\ ~model.loading /\ Len(model.items) > 0

\* the views whose Select indexes a data slice, and the slice
ListViews == {ViewOrgs, ViewWorkspaces, ViewDocs, ViewTables}

DataSlice(m) ==
    CASE m.view = ViewOrgs -> m.orgs
      [] m.view = ViewWorkspaces -> m.workspaces
      [] m.view = ViewDocs -> m.docs
      [] m.view = ViewTables -> m.tables

\* the item list built for the view of m (Table Data shows no item list)
ItemsBuiltFor(m) ==
    CASE m.view = ViewOrgs -> updateOrgsList(m).items
      [] m.view = ViewWorkspaces -> updateWorkspacesList(m).items
      [] m.view = ViewDocs -> updateDocsList(m).items
      [] m.view = ViewDocActions -> docActionLabels
      [] m.view = ViewTables -> updateTablesList(m).items
      [] m.view = ViewTableActions -> tableActionLabels
      [] m.view = ViewDocAccess -> updateAccessList(m).items
      [] m.view = ViewConfirmDelete -> <<"Yes, delete this document", "No, cancel">>
      [] m.view = ViewTableData -> m.items

(***************************************************************************)
(* C28.  Whenever Select is acted upon (loading is false and the item list *)
(* is not empty) the cursor is a valid index of the data slice behind the  *)
(* current view (orgs, workspaces, docs or tables) and the item list is    *)
(* the one built for that view, also when Up, Down or Back were pressed    *)
(* while a load was running; Select never indexes out of range.            *)
(***************************************************************************)
C28_SelectInRange ==
    /\ program # IndexOutOfRange
    /\ SelectActedUpon =>
          /\ model.view \in ListViews => model.cursor < Len(DataSlice(model))
          /\ model.items = ItemsBuiltFor(model)

\* this step starts a deleteDoc command
DeleteStarted ==
    \E cmd \in BagToSet(cmds') :
        cmd.name = "deleteDoc" /\ CopiesIn(cmd, cmds') > CopiesIn(cmd, cmds)

\* the cursor positions of the confirmation
OnYes == 0
OnNo == 1

\* deleteDoc starts only by Select on Confirm Delete, with the cursor on
\* "Yes" and for the selected document
C29_DeleteIssued ==
    DeleteStarted =>
        /\ Running /\ KeyPress("Select")
        /\ model.view = ViewConfirmDelete
        /\ model.cursor = OnYes
        /\ model.selectedDoc # Nil
        /\ cmds' = cmds (+) SetToBag({deleteDoc(model.selectedDoc.v.Id)})

\* Confirm Delete is entered by Delete Document only, with the cursor on "No"
C29_Entered ==
    (Running /\ model.view # ViewConfirmDelete /\ model'.view = ViewConfirmDelete) =>
        /\ KeyPress("Select")
        /\ model.view = ViewDocActions /\ model.cursor = ActionDelete
        /\ model'.cursor = OnNo

\* Back on Confirm Delete returns to Document Actions and starts nothing
C29_Back ==
    (Running /\ model.view = ViewConfirmDelete /\ KeyPress("Back")) =>
        /\ model'.view = ViewDocActions
        /\ cmds' = cmds

\* Select on "No" returns to Document Actions and starts nothing
C29_SelectOnNo ==
    (Running /\ model.view = ViewConfirmDelete /\ model.cursor = OnNo) =>
        LET r == Update_key(model, "Select")
        IN  /\ r.end = "return" /\ r.cmd = NoCmd
            /\ r.model.view = ViewDocActions

\* the same of a Select that is acted upon; a Select that is ignored changes
\* nothing and starts nothing
C29_SelectOnNoActedUpon ==
    (Running /\ model.view = ViewConfirmDelete /\ model.cursor = OnNo) =>
        LET r == Update_key(model, "Select")
        IN  /\ r.end = "return" /\ r.cmd = NoCmd
            /\ SelectActedUpon => r.model.view = ViewDocActions
            /\ ~SelectActedUpon => r.model = model

C29_AsStated ==
    /\ [][C29_DeleteIssued /\ C29_Entered /\ C29_Back]_vars
    /\ []C29_SelectOnNo

C29_DeleteOnlyConfirmed ==
    /\ [][C29_DeleteIssued /\ C29_Entered /\ C29_Back]_vars
    /\ []C29_SelectOnNoActedUpon

\* the deletion was confirmed and runs
C29_Witness ==
    /\ Running
    /\ model.view = ViewConfirmDelete
    /\ model.cursor = OnYes
    /\ model.loading
    /\ model.selectedDoc # Nil
    /\ BagIn(deleteDoc(model.selectedDoc.v.Id), cmds)

\* the confirmation is open, the cursor on "No", and Select is acted upon
C29_WitnessNo ==
    /\ SelectActedUpon
    /\ model.view = ViewConfirmDelete
    /\ model.cursor = OnNo
    /\ cmds = EmptyBag

(***************************************************************************)
(* C30.  Whenever a command started by the model is running (its message   *)
(* was not delivered yet) the loading flag is true, so that Select is      *)
(* ignored and at most one command runs at any time; the flag becomes      *)
(* false only when the message of the running command is delivered.        *)
(***************************************************************************)
C30_LoadingWhileInFlight ==
    Running =>
        /\ cmds # EmptyBag => model.loading
        /\ cmds # EmptyBag => Update_key(model, "Select").model = model
        /\ BagCardinality(cmds) <= 1

C30_FlagCleared ==
    (Running /\ program' = "running" /\ model.loading /\ ~model'.loading) =>
        /\ BagCardinality(cmds) = 1
        /\ cmds' = EmptyBag

C30_OneCommandAtATime == []C30_LoadingWhileInFlight /\ [][C30_FlagCleared]_vars

\* the part of C30 that holds: only the message of a command clears the flag
C30_ClearedByMessage ==
    [][(Running /\ program' = "running" /\ model.loading /\ ~model'.loading) =>
            \E cmd \in BagToSet(cmds) : \E msg \in MessagesOf(cmd) :
                Program(Update_msg(model, msg), SetToBag({cmd}))]_vars

====
